---- MODULE Spec2Model ----
(***************************************************************************)
(* A model of the AEGIS source tokenizer/normalizer: the C/C++ engine      *)
(* (cpp_normalizer.cpp) and the Python engine (python_normalizer.cpp).     *)
(* A source text is a sequence of one-character strings.  One call of      *)
(* normalize is a frame: the TokenizerState, the line metrics and the      *)
(* tokens appended so far.  One action is one iteration of the main scan   *)
(* loop; a last action is the code after the loop.                         *)
(***************************************************************************)
EXTENDS Integers, Sequences, FiniteSets, TLC

VARIABLES engine, state, metrics, tokens, result, pc, calls, first, peer, factory, server, motor

vars == <<engine, state, metrics, tokens, result, pc, calls, first, peer, factory, server, motor>>

(***************************************************************************)
(* Bounds of the model.                                                    *)
(***************************************************************************)
MaxFrags == 4
MaxCalls == 3
MaxLines == 4
MaxWords == 4
MaxCallFrags == 2
MaxDocFrags == 4
MaxIdentFrags == 3

(***************************************************************************)
(* Widths of the integer fields.                                           *)
(***************************************************************************)
UInt16Range == 65536
TabStop == 8

U16(n) == n % UInt16Range

(***************************************************************************)
(* Characters.                                                             *)
(***************************************************************************)
NUL == "NUL"
Lower == {"a", "b", "c", "d", "e", "f", "g", "h", "i", "j", "k", "l", "m",
          "n", "o", "p", "q", "r", "s", "t", "u", "v", "w", "x", "y", "z"}
Upper == {"A", "B", "C", "D", "E", "F", "G", "H", "I", "J", "K", "L", "M",
          "N", "O", "P", "Q", "R", "S", "T", "U", "V", "W", "X", "Y", "Z"}
Digits == {"0", "1", "2", "3", "4", "5", "6", "7", "8", "9"}
HexDigits == Digits \cup {"a", "b", "c", "d", "e", "f", "A", "B", "C", "D", "E", "F"}
BinaryDigits == {"0", "1"}
OctalDigits == {"0", "1", "2", "3", "4", "5", "6", "7"}
is_digit(c) == c \in Digits
is_identifier_start(c) == c \in Lower \cup Upper \cup {"_"}
is_identifier_char(c) == is_identifier_start(c) \/ is_digit(c)

(***************************************************************************)
(* Token model.  The two hash primitives live in token_normalizer.hpp,     *)
(* which is not among the sources: hash_string is taken injective on the   *)
(* text, hash_placeholder depends on the token kind alone.                 *)
(***************************************************************************)
hash_string(text) == <<"hash", text>>
hash_placeholder(type) == <<"placeholder", type>>

NormalizedToken(type, line, column, length, original_hash, normalized_hash) ==
    [type |-> type, line |-> line, column |-> column, length |-> length,
     original_hash |-> original_hash, normalized_hash |-> normalized_hash]

(***************************************************************************)
(* TokenizerState: the cursor.  pos is the 0-based offset of the code.     *)
(***************************************************************************)
eof(s) == s.pos >= Len(s.source)
peek_at(s, offset) == IF s.pos + offset >= Len(s.source) THEN NUL ELSE s.source[s.pos + offset + 1]
peek(s) == IF eof(s) THEN NUL ELSE s.source[s.pos + 1]
peek_next(s) == IF s.pos + 1 >= Len(s.source) THEN NUL ELSE s.source[s.pos + 2]

(***************************************************************************)
(* C/C++ engine.  A frame f holds the fields of TokenizerState, the line   *)
(* counters of normalize and result.tokens.                                *)
(***************************************************************************)
CppKeywords ==
    {"break", "case", "continue", "default", "do", "else", "for", "goto",
     "if", "return", "switch", "while",
     "auto", "char", "const", "double", "enum", "extern", "float", "inline",
     "int", "long", "register", "short", "signed", "sizeof", "static",
     "struct", "typedef", "union", "unsigned", "void", "volatile",
     "alignas", "alignof", "and", "and_eq", "asm", "bitand", "bitor",
     "bool", "catch", "class", "compl", "const_cast", "delete",
     "dynamic_cast", "explicit", "export", "false", "friend", "mutable",
     "namespace", "new", "not", "not_eq", "operator", "or", "or_eq",
     "private", "protected", "public", "reinterpret_cast", "static_cast",
     "template", "this", "throw", "true", "try", "typeid", "typename",
     "using", "virtual", "wchar_t", "xor", "xor_eq"}
CppModernKeywords ==
    {"alignas", "alignof", "char8_t", "char16_t", "char32_t", "concept",
     "consteval", "constexpr", "constinit", "co_await", "co_return",
     "co_yield", "decltype", "final", "noexcept", "nullptr", "override",
     "requires", "static_assert", "thread_local"}
CppBuiltinTypes ==
    {"int8_t", "int16_t", "int32_t", "int64_t",
     "uint8_t", "uint16_t", "uint32_t", "uint64_t",
     "size_t", "ptrdiff_t", "intptr_t", "uintptr_t",
     "string", "wstring", "string_view",
     "vector", "array", "list", "deque", "forward_list",
     "set", "map", "multiset", "multimap",
     "unordered_set", "unordered_map", "unordered_multiset", "unordered_multimap",
     "stack", "queue", "priority_queue",
     "pair", "tuple", "optional", "variant", "any",
     "unique_ptr", "shared_ptr", "weak_ptr",
     "function", "bind", "reference_wrapper",
     "thread", "mutex", "condition_variable", "future", "promise",
     "atomic", "atomic_flag"}

CppInitState(source) ==
    [source |-> source, pos |-> 0, line |-> 1, column |-> 1, at_line_start |-> TRUE]
CppInitMetrics ==
    [code_lines |-> 0, blank_lines |-> 0, comment_lines |-> 0,
     current_line |-> 0, line_has_code |-> FALSE, line_has_comment |-> FALSE]

CppAdvance(f) ==
    LET c == peek(f)
    IN  IF c = "\n"
        THEN [f EXCEPT !.pos = @ + 1, !.line = @ + 1, !.column = 1, !.at_line_start = TRUE]
        ELSE [f EXCEPT !.pos = @ + 1, !.column = U16(@ + 1),
                       !.at_line_start = IF c \notin {" ", "\t"} THEN FALSE ELSE @]

RECURSIVE CppAdvanceN(_, _)
CppAdvanceN(f, n) == IF n = 0 THEN f ELSE CppAdvanceN(CppAdvance(f), n - 1)

(* The text of the source from the cursor, at most n characters (substr). *)
RECURSIVE substr(_, _)
substr(f, n) ==
    IF n = 0 \/ eof(f) THEN "" ELSE peek(f) \o substr([f EXCEPT !.pos = @ + 1], n - 1)

(* Appends the token that a parse function returns; p is [f, tok]. *)
PushToken(p) == [p.f EXCEPT !.tokens = Append(@, p.tok)]

(* "Skip prefix (L, u, U, u8)" of parse_string and parse_char. *)
CppSkipPrefix(f) ==
    IF peek(f) \in {"L", "U"} THEN CppAdvance(f)
    ELSE IF peek(f) = "u"
         THEN LET f1 == CppAdvance(f) IN IF peek(f1) = "8" THEN CppAdvance(f1) ELSE f1
         ELSE f

RECURSIVE CppStringBody(_, _)
CppStringBody(f, value) ==
    IF eof(f) THEN [f |-> f, value |-> value]
    ELSE LET c == peek(f)
         IN  IF c = "\"" THEN [f |-> CppAdvance(f), value |-> value]
             ELSE IF c = "\n" THEN [f |-> f, value |-> value]
             ELSE IF c = "\\"
                  THEN LET f1 == CppAdvance(f)
                       IN  CppStringBody(IF eof(f1) THEN f1 ELSE CppAdvance(f1), value)
                  ELSE CppStringBody(CppAdvance(f), value \o c)

CppParseString(f) ==
    LET r == CppStringBody(CppAdvance(CppSkipPrefix(f)), "")
    IN  [f |-> r.f,
         tok |-> NormalizedToken("STRING_LITERAL", f.line, f.column, U16(r.f.pos - f.pos),
                                 hash_string(r.value), hash_placeholder("STRING_LITERAL"))]

RECURSIVE CppRawDelimiter(_, _)
CppRawDelimiter(f, delimiter) ==
    IF ~eof(f) /\ peek(f) # "("
    THEN CppRawDelimiter(CppAdvance(f), Append(delimiter, peek(f)))
    ELSE [f |-> f, value |-> delimiter]

(* found_end that looks at the closing parenthesis only. *)
CppFoundParen(f, end_marker) == peek(f) = end_marker[1]

(* found_end of parse_raw_string: the end marker stands at the cursor. *)
CppFoundEnd(f, end_marker) ==
    \A i \in 1..Len(end_marker) : peek_at(f, i - 1) = end_marker[i]

RECURSIVE CppRawBody(_, _, _)
CppRawBody(f, end_marker, value) ==
    IF eof(f) THEN [f |-> f, value |-> value]
    ELSE IF CppFoundEnd(f, end_marker)
         THEN [f |-> CppAdvanceN(f, Len(end_marker)), value |-> value]
         ELSE CppRawBody(CppAdvance(f), end_marker, value \o peek(f))

CppParseRawString(f) ==
    LET d == CppRawDelimiter(CppAdvanceN(f, 2), <<>>)
        f1 == IF ~eof(d.f) THEN CppAdvance(d.f) ELSE d.f
        end_marker == <<")">> \o d.value \o <<"\"">>
        r == CppRawBody(f1, end_marker, "")
    IN  [f |-> r.f,
         tok |-> NormalizedToken("STRING_LITERAL", f.line, f.column, U16(r.f.pos - f.pos),
                                 hash_string(r.value), hash_placeholder("STRING_LITERAL"))]

RECURSIVE CppCharBody(_, _)
CppCharBody(f, value) ==
    IF eof(f) \/ peek(f) = "'" \/ peek(f) = "\n" THEN [f |-> f, value |-> value]
    ELSE IF peek(f) = "\\"
         THEN LET f1 == CppAdvance(f)
              IN  IF eof(f1) THEN CppCharBody(f1, value)
                  ELSE CppCharBody(CppAdvance(f1), value \o peek(f1))
         ELSE CppCharBody(CppAdvance(f), value \o peek(f))

CppParseChar(f) ==
    LET r == CppCharBody(CppAdvance(CppSkipPrefix(f)), "")
        f1 == IF ~eof(r.f) THEN CppAdvance(r.f) ELSE r.f
    IN  [f |-> f1,
         tok |-> NormalizedToken("STRING_LITERAL", f.line, f.column, U16(f1.pos - f.pos),
                                 hash_string(r.value), hash_placeholder("STRING_LITERAL"))]

(* Number literals.  p is [f, value]: the cursor and the value built so far. *)
RECURSIVE consume_digits_with_separator(_, _)
consume_digits_with_separator(p, digits) ==
    IF eof(p.f) THEN p
    ELSE LET c == peek(p.f)
         IN  IF c \in digits
             THEN consume_digits_with_separator([f |-> CppAdvance(p.f), value |-> p.value \o c], digits)
             ELSE IF c = "'"
                  THEN consume_digits_with_separator([f |-> CppAdvance(p.f), value |-> p.value], digits)
                  ELSE p

(* value += state.advance() *)
CppTake(p) == [f |-> CppAdvance(p.f), value |-> p.value \o peek(p.f)]

(* The special formats tried when the literal starts with '0': parse_hex_number, *)
(* parse_binary_number, parse_octal_number, else the bare leading zero.          *)
CppLeadingZero(p) ==
    LET next == peek_next(p.f)
    IN  IF next \in {"x", "X"} THEN consume_digits_with_separator(CppTake(CppTake(p)), HexDigits)
        ELSE IF next \in {"b", "B"} THEN consume_digits_with_separator(CppTake(CppTake(p)), BinaryDigits)
        ELSE IF next \in OctalDigits THEN consume_digits_with_separator(CppTake(p), OctalDigits)
        ELSE CppTake(p)

CppParseDecimalPart(p) ==
    IF peek(p.f) # "." THEN p
    ELSE IF ~is_digit(peek_next(p.f)) /\ peek_next(p.f) \notin {"e", "E"} THEN p
         ELSE consume_digits_with_separator(CppTake(p), Digits)

CppParseExponentPart(p) ==
    IF peek(p.f) \notin {"e", "E"} THEN p
    ELSE LET p1 == CppTake(p)
             p2 == IF peek(p1.f) \in {"+", "-"} THEN CppTake(p1) ELSE p1
         IN  consume_digits_with_separator(p2, Digits)

RECURSIVE skip_number_suffix(_)
skip_number_suffix(f) ==
    IF ~eof(f) /\ peek(f) \in {"u", "U", "l", "L", "f", "F"}
    THEN skip_number_suffix(CppAdvance(f))
    ELSE f

CppParseNumber(f) ==
    LET p0 == [f |-> f, value |-> ""]
        p1 == IF peek(f) = "0" /\ ~eof(f) THEN CppLeadingZero(p0) ELSE p0
        p2 == IF p1.value = "" THEN consume_digits_with_separator(p1, Digits) ELSE p1
        p3 == CppParseExponentPart(CppParseDecimalPart(p2))
        f4 == skip_number_suffix(p3.f)
    IN  [f |-> f4,
         tok |-> NormalizedToken("NUMBER_LITERAL", f.line, f.column, U16(f4.pos - f.pos),
                                 hash_string(p3.value), hash_placeholder("NUMBER_LITERAL"))]

RECURSIVE CppIdentifierBody(_)
CppIdentifierBody(p) ==
    IF ~eof(p.f) /\ is_identifier_char(peek(p.f)) THEN CppIdentifierBody(CppTake(p)) ELSE p

(***************************************************************************)
(* The engine factories.  An engine is named by the value of the variable  *)
(* engine: "py", "cpp", "js" for the ECMAScript engine, "null" for none.   *)
(***************************************************************************)

(* The values of enum Language: the five the factory names, the value for  *)
(* no language and one that stands for every other enumerator.             *)
Languages == {"PYTHON", "JAVASCRIPT", "TYPESCRIPT", "CPP", "C", "UNKNOWN", "OTHER"}

CppExtensions == {".cpp", ".cxx", ".cc", ".c", ".hpp", ".hxx", ".h", ".hh"}
PyExtensions == {".py", ".pyw", ".pyi"}
JsExtensions == {".js", ".ts"}

(* The languages detect_language may return for an extension: one whose    *)
(* engine declares the extension, no language otherwise.                   *)
detect_language(extension) ==
    IF extension \in PyExtensions THEN {"PYTHON"}
    ELSE IF extension \in JsExtensions THEN {"JAVASCRIPT", "TYPESCRIPT"}
    ELSE IF extension \in CppExtensions THEN {"CPP", "C"}
    ELSE {"UNKNOWN"}

(* create_normalizer with `case Language::C' forgotten. *)
CreateNormalizerWithoutC(language) ==
    CASE language = "PYTHON" -> "py"
      [] language \in {"JAVASCRIPT", "TYPESCRIPT"} -> "js"
      [] language = "CPP" -> "cpp"
      [] OTHER -> "null"

create_normalizer(language) ==
    CASE language = "PYTHON" -> "py"
      [] language \in {"JAVASCRIPT", "TYPESCRIPT"} -> "js"
      [] language \in {"CPP", "C"} -> "cpp"
      [] OTHER -> "null"

(* The classification with the C++11..20 keyword table left unconsulted. *)
CppClassifyClassic(value) ==
    IF value \in CppKeywords THEN "KEYWORD"
    ELSE IF value \in CppBuiltinTypes THEN "TYPE"
    ELSE "IDENTIFIER"

(* The kind of an identifier-shaped lexeme of the C/C++ engine. *)
CppClassify(value) ==
    IF value \in CppKeywords \/ value \in CppModernKeywords THEN "KEYWORD"
    ELSE IF value \in CppBuiltinTypes THEN "TYPE"
    ELSE "IDENTIFIER"

(* parse_identifier_or_keyword without normalisation: every word keeps its own hash. *)
CppIdentifierKeepsHash(type, original_hash) == original_hash

(* The normalized_hash that parse_identifier_or_keyword gives a token of this kind. *)
CppIdentifierNormalizedHash(type, original_hash) ==
    IF type = "KEYWORD" THEN original_hash ELSE hash_placeholder(type)

CppParseIdentifierOrKeyword(f) ==
    LET r == CppIdentifierBody([f |-> f, value |-> ""])
        type == CppClassify(r.value)
    IN  [f |-> r.f,
         tok |-> NormalizedToken(type, f.line, f.column, U16(r.f.pos - f.pos),
                                 hash_string(r.value),
                                 CppIdentifierNormalizedHash(type, hash_string(r.value)))]

CppThreeCharOperators == {"<<=", ">>=", "<=>", "->*", "..."}
CppTwoCharOperators ==
    {"==", "!=", "<=", ">=", "+=", "-=", "*=", "/=", "%=", "&=", "|=", "^=",
     "++", "--", "&&", "||", "<<", ">>", "->", "::", ".*", "##"}
CppOperatorChars ==
    {"+", "-", "*", "/", "%", "=", "<", ">", "!", "&", "|", "^", "~", "?", ":",
     "(", ")", "[", "]", "{", "}", ",", ";", ".", "#"}
is_punctuation(op) == op \in {"(", ")", "[", "]", "{", "}", ",", ":", ";", "."}

(* The tables tried with the shorter entries first: two characters, then  *)
(* three, then four.                                                      *)
CppMatchOperatorShortFirst(f) ==
    IF f.pos + 1 < Len(f.source) /\ substr(f, 2) \in CppTwoCharOperators THEN substr(f, 2)
    ELSE IF f.pos + 2 < Len(f.source) /\ substr(f, 3) \in CppThreeCharOperators THEN substr(f, 3)
    ELSE IF f.pos + 3 < Len(f.source) /\ substr(f, 4) = ">>>=" THEN ">>>="
    ELSE peek(f)

(* The operator text matched at the cursor: the 4-, 3-, 2-character tables, *)
(* then the single character.                                               *)
CppMatchOperator(f) ==
    IF f.pos + 3 < Len(f.source) /\ substr(f, 4) = ">>>=" THEN ">>>="
    ELSE IF f.pos + 2 < Len(f.source) /\ substr(f, 3) \in CppThreeCharOperators THEN substr(f, 3)
    ELSE IF f.pos + 1 < Len(f.source) /\ substr(f, 2) \in CppTwoCharOperators THEN substr(f, 2)
    ELSE peek(f)

CppParseOperator(f) ==
    LET value == CppMatchOperator(f)
        f1 == CppAdvanceN(f, Len(value))
    IN  [f |-> f1,
         tok |-> NormalizedToken(IF is_punctuation(value) THEN "PUNCTUATION" ELSE "OPERATOR",
                                 f.line, f.column, U16(f1.pos - f.pos),
                                 hash_string(value), hash_string(value))]

(* The loop of skip_preprocessor, after the '#' has been skipped. *)
RECURSIVE CppDirectiveBody(_)
CppDirectiveBody(f) ==
    IF eof(f) \/ peek(f) = "\n" THEN f
    ELSE IF peek(f) = "\\"
         THEN LET f1 == CppAdvance(f)
              IN  CppDirectiveBody(IF ~eof(f1) /\ peek(f1) = "\n" THEN CppAdvance(f1) ELSE f1)
         ELSE CppDirectiveBody(CppAdvance(f))

skip_preprocessor(f) == CppDirectiveBody(CppAdvance(f))

RECURSIVE skip_single_line_comment(_)
skip_single_line_comment(f) ==
    IF ~eof(f) /\ peek(f) # "\n" THEN skip_single_line_comment(CppAdvance(f)) ELSE f

RECURSIVE CppBlockCommentBody(_)
CppBlockCommentBody(f) ==
    IF eof(f) THEN f
    ELSE IF peek(f) = "*" /\ peek_next(f) = "/" THEN CppAdvanceN(f, 2)
         ELSE CppBlockCommentBody(CppAdvance(f))

skip_multi_line_comment(f) == CppBlockCommentBody(CppAdvanceN(f, 2))

(* handle_line_metrics and update_line_metrics: the previous line is counted *)
(* when the cursor's line differs from the line the flags belong to.         *)
handle_line_metrics(f) ==
    IF f.line # f.current_line
    THEN LET g == IF f.current_line > 0
                  THEN IF f.line_has_code THEN [f EXCEPT !.code_lines = @ + 1]
                       ELSE IF f.line_has_comment THEN [f EXCEPT !.comment_lines = @ + 1]
                       ELSE [f EXCEPT !.blank_lines = @ + 1]
                  ELSE f
         IN  [g EXCEPT !.current_line = f.line, !.line_has_code = FALSE, !.line_has_comment = FALSE]
    ELSE f

(* process_preprocessor without the test of at_line_start. *)
CppAtDirectiveAnywhere(f) == peek(f) = "#"

(* The condition of process_preprocessor. *)
CppAtDirective(f) == peek(f) = "#" /\ f.at_line_start

(* The three conditions of process_string_literal. *)
CppAtRawString(f) == peek(f) = "R" /\ peek_next(f) = "\""
CppAtQuoted(f, q) ==
    \/ peek(f) = q
    \/ peek(f) \in {"L", "u", "U"} /\ peek_next(f) = q
    \/ peek(f) = "u" /\ peek_next(f) = "8" /\ peek_at(f, 2) = q

(* The chain of normalize's loop body after handle_line_metrics: the first *)
(* class that matches at the cursor consumes.                              *)
CppDispatch(f) ==
    LET c == peek(f)
        code == [f EXCEPT !.line_has_code = TRUE]
    IN  IF c \in {" ", "\t", "\r", "\n"} THEN CppAdvance(f)
        ELSE IF CppAtDirective(f) THEN [skip_preprocessor(f) EXCEPT !.line_has_code = TRUE]
        ELSE IF c = "/" /\ peek_next(f) = "/"
             THEN skip_single_line_comment([f EXCEPT !.line_has_comment = TRUE])
        ELSE IF c = "/" /\ peek_next(f) = "*"
             THEN skip_multi_line_comment([f EXCEPT !.line_has_comment = TRUE])
        ELSE IF CppAtRawString(f) THEN PushToken(CppParseRawString(code))
        ELSE IF CppAtQuoted(f, "\"") THEN PushToken(CppParseString(code))
        ELSE IF CppAtQuoted(f, "'") THEN PushToken(CppParseChar(code))
        ELSE IF is_digit(c) \/ (c = "." /\ is_digit(peek_next(f))) THEN PushToken(CppParseNumber(code))
        ELSE IF is_identifier_start(c) THEN PushToken(CppParseIdentifierOrKeyword(code))
        ELSE IF c \in CppOperatorChars THEN PushToken(CppParseOperator(code))
        ELSE CppAdvance(f)

(* One iteration of the loop of CppNormalizer::normalize. *)
CppIteration(f) == CppDispatch(handle_line_metrics(f))

(* The code after the loop: the final line, total_lines, the counters. *)
FinalLine(f) ==
    IF f.current_line > 0
    THEN IF f.line_has_code THEN [f EXCEPT !.code_lines = @ + 1]
         ELSE IF f.line_has_comment THEN [f EXCEPT !.comment_lines = @ + 1]
         ELSE [f EXCEPT !.blank_lines = @ + 1]
    ELSE f

TotalLines(f) ==
    IF Len(f.source) = 0 THEN 0
    ELSE IF f.column = 1 /\ f.line > 1 THEN f.line - 1 ELSE f.line

TokenizedFile(f) ==
    [path |-> "", tokens |-> f.tokens, total_lines |-> TotalLines(f),
     code_lines |-> f.code_lines, blank_lines |-> f.blank_lines,
     comment_lines |-> f.comment_lines]

CppFinish(f) == FinalLine(f)

(***************************************************************************)
(* Python engine.  Its frame has the indentation stack as well.            *)
(***************************************************************************)
PyKeywords ==
    {"False", "None", "True", "and", "as", "assert", "async", "await",
     "break", "class", "continue", "def", "del", "elif", "else", "except",
     "finally", "for", "from", "global", "if", "import", "in", "is",
     "lambda", "nonlocal", "not", "or", "pass", "raise", "return", "try",
     "while", "with", "yield"}
PyBuiltinTypes ==
    {"int", "float", "str", "bool", "list", "dict", "set", "tuple",
     "bytes", "bytearray", "complex", "frozenset", "object", "type",
     "range", "slice", "memoryview", "property", "classmethod",
     "staticmethod", "super"}

PyInitState(source) ==
    [source |-> source, pos |-> 0, line |-> 1, column |-> 1,
     indent_stack |-> <<0>>, at_line_start |-> TRUE]
PyInitMetrics ==
    [code_lines |-> 0, blank_lines |-> 0, comment_lines |-> 0,
     current_line |-> 0, line_has_code |-> FALSE, line_has_comment |-> FALSE]

PyAdvance(f) ==
    IF peek(f) = "\n"
    THEN [f EXCEPT !.pos = @ + 1, !.line = @ + 1, !.column = 1, !.at_line_start = TRUE]
    ELSE [f EXCEPT !.pos = @ + 1, !.column = U16(@ + 1)]

RECURSIVE PyAdvanceN(_, _)
PyAdvanceN(f, n) == IF n = 0 THEN f ELSE PyAdvanceN(PyAdvance(f), n - 1)

(* The closing triple quote stands at the cursor (parse_string, skip_docstring). *)
PyAtClosingTriple(f, quote) ==
    /\ peek(f) = quote
    /\ peek_next(f) = quote
    /\ f.pos + 2 < Len(f.source)
    /\ f.source[f.pos + 3] = quote

(* An escape sequence is consumed as two raw characters. *)
PySkipEscape(f) == LET f1 == PyAdvance(f) IN IF ~eof(f1) THEN PyAdvance(f1) ELSE f1

RECURSIVE PyStringBody(_, _, _, _)
PyStringBody(f, quote, triple, value) ==
    IF eof(f) THEN [f |-> f, value |-> value]
    ELSE LET c == peek(f)
         IN  IF triple /\ PyAtClosingTriple(f, quote) THEN [f |-> PyAdvanceN(f, 3), value |-> value]
             ELSE IF ~triple /\ c = quote THEN [f |-> PyAdvance(f), value |-> value]
             ELSE IF ~triple /\ c = "\n" THEN [f |-> f, value |-> value]
             ELSE IF c = "\\" THEN PyStringBody(PySkipEscape(f), quote, triple, value)
             ELSE PyStringBody(PyAdvance(f), quote, triple, value \o c)

PyParseString(f) ==
    LET quote == peek(f)
        f1 == PyAdvance(f)
        triple == peek(f1) = quote /\ peek_next(f1) = quote
        f2 == IF triple THEN PyAdvanceN(f1, 2) ELSE f1
        r == PyStringBody(f2, quote, triple, "")
    IN  [f |-> r.f,
         tok |-> NormalizedToken("STRING_LITERAL", f.line, f.column,
                                 U16(r.f.pos - f2.pos + (IF triple THEN 3 ELSE 1)),
                                 hash_string(r.value), hash_placeholder("STRING_LITERAL"))]

(* value += state.advance() *)
PyTake(p) == [f |-> PyAdvance(p.f), value |-> p.value \o peek(p.f)]

(* The digit loop of the number helpers: '_' separators are skipped. *)
RECURSIVE PyDigitRun(_, _)
PyDigitRun(p, digits) ==
    IF ~eof(p.f) /\ (peek(p.f) \in digits \/ peek(p.f) = "_")
    THEN PyDigitRun([f |-> PyAdvance(p.f),
                     value |-> IF peek(p.f) # "_" THEN p.value \o peek(p.f) ELSE p.value], digits)
    ELSE p

(* parse_hex_number || parse_binary_number || parse_octal_number *)
PyIsSpecial(f) == peek(f) = "0" /\ ~eof(f) /\ peek_next(f) \in {"x", "X", "b", "B", "o", "O"}
PyParseSpecial(p) ==
    LET next == peek_next(p.f)
    IN  PyDigitRun(PyTake(PyTake(p)),
                   IF next \in {"x", "X"} THEN HexDigits
                   ELSE IF next \in {"b", "B"} THEN BinaryDigits ELSE OctalDigits)

PyParseIntegerPart(p) == IF peek(p.f) = "0" THEN PyTake(p) ELSE PyDigitRun(p, Digits)

PyParseDecimalPart(p) ==
    IF peek(p.f) # "." \/ ~is_digit(peek_next(p.f)) THEN p ELSE PyDigitRun(PyTake(p), Digits)

PyParseExponentPart(p) ==
    IF peek(p.f) \notin {"e", "E"} THEN p
    ELSE LET p1 == PyTake(p)
         IN  PyDigitRun(IF peek(p1.f) \in {"+", "-"} THEN PyTake(p1) ELSE p1, Digits)

skip_complex_suffix(p) == IF peek(p.f) \in {"j", "J"} THEN PyTake(p) ELSE p

PyParseNumber(f) ==
    LET p0 == [f |-> f, value |-> ""]
        p1 == IF PyIsSpecial(f) THEN PyParseSpecial(p0)
              ELSE PyParseExponentPart(PyParseDecimalPart(PyParseIntegerPart(p0)))
        p2 == skip_complex_suffix(p1)
    IN  [f |-> p2.f,
         tok |-> NormalizedToken("NUMBER_LITERAL", f.line, f.column, U16(p2.f.pos - f.pos),
                                 hash_string(p2.value), hash_placeholder("NUMBER_LITERAL"))]

RECURSIVE PyIdentifierBody(_)
PyIdentifierBody(p) ==
    IF ~eof(p.f) /\ is_identifier_char(peek(p.f)) THEN PyIdentifierBody(PyTake(p)) ELSE p

PyClassify(value) ==
    IF value \in PyKeywords THEN "KEYWORD"
    ELSE IF value \in PyBuiltinTypes THEN "TYPE"
    ELSE "IDENTIFIER"

(* parse_identifier_or_keyword without normalisation: every word keeps its own hash. *)
PyIdentifierKeepsHash(type, original_hash) == original_hash

PyIdentifierNormalizedHash(type, original_hash) ==
    IF type = "KEYWORD" THEN original_hash ELSE hash_placeholder(type)

PyParseIdentifierOrKeyword(f) ==
    LET r == PyIdentifierBody([f |-> f, value |-> ""])
        type == PyClassify(r.value)
    IN  [f |-> r.f,
         tok |-> NormalizedToken(type, f.line, f.column, U16(r.f.pos - f.pos),
                                 hash_string(r.value),
                                 PyIdentifierNormalizedHash(type, hash_string(r.value)))]

PyThreeCharOperators == {"...", "<<=", ">>=", "**=", "//="}
PyTwoCharOperators ==
    {"==", "!=", "<=", ">=", "+=", "-=", "*=", "/=", "%=", "&=", "|=", "^=",
     "**", "//", "<<", ">>", "->", "@="}
PyOperatorChars ==
    {"+", "-", "*", "/", "%", "=", "<", ">", "!", "&", "|", "^", "~", "@", "(",
     ")", "[", "]", "{", "}", ",", ":", ";", "."}

PyMatchOperator(f) ==
    IF f.pos + 2 < Len(f.source) /\ substr(f, 3) \in PyThreeCharOperators THEN substr(f, 3)
    ELSE IF f.pos + 1 < Len(f.source) /\ substr(f, 2) \in PyTwoCharOperators THEN substr(f, 2)
    ELSE peek(f)

(* The normalized_hash that parse_operator gives its token. *)
PyOperatorNormalizedHash(original_hash) == original_hash

PyParseOperator(f) ==
    LET value == PyMatchOperator(f)
        f1 == PyAdvanceN(f, Len(value))
    IN  [f |-> f1,
         tok |-> NormalizedToken(IF is_punctuation(value) THEN "PUNCTUATION" ELSE "OPERATOR",
                                 f.line, f.column, U16(f1.pos - f.pos),
                                 hash_string(value), PyOperatorNormalizedHash(hash_string(value)))]

(* skip_comment with the loop test on the newline inverted: it stops on    *)
(* the first character of the comment.                                     *)
SkipCommentInverted(f) == IF ~eof(f) /\ peek(f) = "\n" THEN PyAdvance(f) ELSE f

RECURSIVE skip_comment(_)
skip_comment(f) == IF ~eof(f) /\ peek(f) # "\n" THEN skip_comment(PyAdvance(f)) ELSE f

RECURSIVE PyDocstringBody(_, _)
PyDocstringBody(f, quote) ==
    IF eof(f) THEN f
    ELSE IF PyAtClosingTriple(f, quote) THEN PyAdvanceN(f, 3)
         ELSE IF peek(f) = "\\" THEN PyDocstringBody(PySkipEscape(f), quote)
         ELSE PyDocstringBody(PyAdvance(f), quote)

skip_docstring(f, quote) == PyDocstringBody(PyAdvanceN(f, 3), quote)

(* Looks back over the tokens from index i, skipping NEWLINE and INDENT. *)
(* The backward loop of is_docstring_context skipping DEDENT as well. *)
RECURSIVE PyDocstringScanDedent(_, _)
PyDocstringScanDedent(toks, i) ==
    IF i = 0 THEN TRUE
    ELSE IF toks[i].type \in {"NEWLINE", "INDENT", "DEDENT"} THEN PyDocstringScanDedent(toks, i - 1)
         ELSE toks[i].type = "PUNCTUATION" /\ toks[i].original_hash = hash_string(":")

RECURSIVE PyDocstringScan(_, _)
PyDocstringScan(toks, i) ==
    IF i = 0 THEN TRUE
    ELSE IF toks[i].type \in {"NEWLINE", "INDENT"} THEN PyDocstringScan(toks, i - 1)
         ELSE toks[i].type = "PUNCTUATION" /\ toks[i].original_hash = hash_string(":")

is_docstring_context(toks) == PyDocstringScan(toks, Len(toks))

is_import_statement(f) ==
    \/ Len(f.source) - f.pos >= 7 /\ substr(f, 7) = "import "
    \/ Len(f.source) - f.pos >= 5 /\ substr(f, 5) = "from "

(* The inner loop of skip_to_end_of_line: skip until the closing paren. *)
RECURSIVE PyImportParens(_, _)
PyImportParens(f, depth) ==
    IF ~eof(f) /\ depth > 0
    THEN PyImportParens(PyAdvance(f),
                        IF peek(f) = "(" THEN depth + 1
                        ELSE IF peek(f) = ")" THEN depth - 1 ELSE depth)
    ELSE f

(* skip_to_end_of_line without the branch for the opening parenthesis. *)
RECURSIVE SkipToEndOfLineNoParens(_)
SkipToEndOfLineNoParens(f) ==
    IF eof(f) \/ peek(f) = "\n" THEN f
    ELSE IF peek(f) = "\\"
         THEN LET f1 == PyAdvance(f)
              IN  SkipToEndOfLineNoParens(IF ~eof(f1) /\ peek(f1) = "\n" THEN PyAdvance(f1) ELSE f1)
         ELSE SkipToEndOfLineNoParens(PyAdvance(f))

RECURSIVE skip_to_end_of_line(_)
skip_to_end_of_line(f) ==
    IF eof(f) \/ peek(f) = "\n" THEN f
    ELSE IF peek(f) = "\\"
         THEN LET f1 == PyAdvance(f)
              IN  skip_to_end_of_line(IF ~eof(f1) /\ peek(f1) = "\n" THEN PyAdvance(f1) ELSE f1)
         ELSE IF peek(f) = "(" THEN skip_to_end_of_line(PyImportParens(PyAdvance(f), 1))
         ELSE skip_to_end_of_line(PyAdvance(f))

StructuralToken(type, text, f, length) ==
    NormalizedToken(type, f.line, 1, length, hash_string(text), hash_string(text))

(* The pop loop of handle_indentation: one DEDENT per popped entry. *)
RECURSIVE PyPopTo(_, _)
PyPopTo(f, current_indent) ==
    IF Len(f.indent_stack) > 0 /\ f.indent_stack[Len(f.indent_stack)] > current_indent
    THEN PyPopTo([f EXCEPT !.indent_stack = SubSeq(@, 1, Len(@) - 1),
                           !.tokens = Append(@, StructuralToken("DEDENT", "DEDENT", f, 0))],
                 current_indent)
    ELSE f

(* handle_indentation made to open a block at a width that matches no     *)
(* enclosing level: behind the pops the new width is pushed.              *)
HandleIndentationPushesAfterPop(f, current_indent) ==
    LET prev_indent == f.indent_stack[Len(f.indent_stack)]
        g == PyPopTo(f, current_indent)
    IN  IF current_indent > prev_indent
        THEN [f EXCEPT !.indent_stack = Append(@, current_indent),
                       !.tokens = Append(@, StructuralToken("INDENT", "INDENT", f, U16(current_indent)))]
        ELSE IF current_indent < prev_indent
             THEN IF g.indent_stack[Len(g.indent_stack)] < current_indent
                  THEN [g EXCEPT !.indent_stack = Append(@, current_indent),
                                 !.tokens = Append(@, StructuralToken("INDENT", "INDENT", g,
                                                                      U16(current_indent)))]
                  ELSE g
        ELSE f

(* handle_indentation, with process_indentation's append of the tokens it returns. *)
handle_indentation(f, current_indent) ==
    LET prev_indent == f.indent_stack[Len(f.indent_stack)]
    IN  IF current_indent > prev_indent
        THEN [f EXCEPT !.indent_stack = Append(@, current_indent),
                       !.tokens = Append(@, StructuralToken("INDENT", "INDENT", f, U16(current_indent)))]
        ELSE IF current_indent < prev_indent THEN PyPopTo(f, current_indent)
        ELSE f

(* The measuring loop with a tab counted as eight columns wherever it     *)
(* stands.                                                                *)
PyMeasureStepTabAddsEight(p) ==
    IF ~eof(p.f) /\ peek(p.f) \in {" ", "\t"}
    THEN [f |-> PyAdvance(p.f),
          indent |-> IF peek(p.f) = "\t" THEN p.indent + TabStop ELSE p.indent + 1]
    ELSE p

(* One iteration of the measuring loop of process_indentation; p is        *)
(* [f, indent], and behind the run of blanks an iteration changes nothing. *)
PyMeasureStep(p) ==
    IF ~eof(p.f) /\ peek(p.f) \in {" ", "\t"}
    THEN [f |-> PyAdvance(p.f),
          indent |-> IF peek(p.f) = "\t"
                     THEN p.indent + (TabStop - (p.indent % TabStop))
                     ELSE p.indent + 1]
    ELSE p

(* n iterations, the count halved so that a run of thousands of blanks     *)
(* nests a few levels deep only; a half that did not move the cursor has   *)
(* found the end of the run.                                               *)
RECURSIVE PyMeasureTimes(_, _)
PyMeasureTimes(p, n) ==
    IF n = 0 THEN p
    ELSE IF n = 1 THEN PyMeasureStep(p)
    ELSE LET q == PyMeasureTimes(p, n \div 2)
         IN  IF q.f.pos = p.f.pos THEN q ELSE PyMeasureTimes(q, n - (n \div 2))

(* The measuring loop: it ends with the run of blanks, at the latest with  *)
(* the text.                                                               *)
PyMeasureIndent(p) == PyMeasureTimes(p, Len(p.f.source) - p.f.pos)

(* process_indentation without the look at what follows the blanks: blank *)
(* and comment-only lines are compared with the stack as well.            *)
ProcessIndentationAlways(f) ==
    LET m == PyMeasureIndent([f |-> f, indent |-> 0])
        g == IF ~eof(m.f) THEN handle_indentation(m.f, m.indent) ELSE m.f
    IN  [g EXCEPT !.at_line_start = FALSE]

process_indentation(f) ==
    LET m == PyMeasureIndent([f |-> f, indent |-> 0])
        g == IF ~eof(m.f) /\ peek(m.f) \notin {"\n", "#"}
             THEN handle_indentation(m.f, m.indent)
             ELSE m.f
    IN  [g EXCEPT !.at_line_start = FALSE]

(* process_newline without the look at the last token: every line break  *)
(* behind a token emits.                                                 *)
ProcessNewlineUnguarded(f) ==
    LET tok == NormalizedToken("NEWLINE", f.line, f.column, 1, hash_string("\n"), hash_string("\n"))
    IN  PyAdvance(IF Len(f.tokens) > 0 THEN [f EXCEPT !.tokens = Append(@, tok)] ELSE f)

process_newline(f) ==
    LET emit == Len(f.tokens) > 0 /\ f.tokens[Len(f.tokens)].type # "NEWLINE"
        tok == NormalizedToken("NEWLINE", f.line, f.column, 1, hash_string("\n"), hash_string("\n"))
    IN  PyAdvance(IF emit THEN [f EXCEPT !.tokens = Append(@, tok)] ELSE f)

(* The cursor is at an unprefixed triple quote (process_string_or_docstring). *)
PyAtTripleQuote(f) ==
    /\ peek(f) \in {"\"", "'"}
    /\ peek_next(f) = peek(f)
    /\ f.pos + 2 < Len(f.source)
    /\ f.source[f.pos + 3] = peek(f)

(* is_docstring with the negation of line_has_code dropped. *)
PyIsDocstringBehindCode(f) ==
    PyAtTripleQuote(f) /\ f.line_has_code /\ is_docstring_context(f.tokens)

(* The condition under which process_string_or_docstring elides the literal. *)
PyIsDocstring(f) == PyAtTripleQuote(f) /\ ~f.line_has_code /\ is_docstring_context(f.tokens)

PyAtSinglePrefix(f) ==
    peek(f) \in {"f", "F", "r", "R", "b", "B"} /\ peek_next(f) \in {"\"", "'"}
PyAtDoublePrefix(f) ==
    /\ peek(f) \in {"f", "F", "r", "R"}
    /\ peek_next(f) \in {"r", "R", "f", "F"}
    /\ f.pos + 2 < Len(f.source)
    /\ f.source[f.pos + 3] \in {"\"", "'"}

(* The chain of normalize's loop body after the indentation handling. *)
PyDispatch(f) ==
    LET c == peek(f)
        code == [f EXCEPT !.line_has_code = TRUE]
    IN  IF c \in {" ", "\t"} THEN PyAdvance(f)
        ELSE IF c = "\n" THEN process_newline(f)
        ELSE IF c = "#" THEN skip_comment([f EXCEPT !.line_has_comment = TRUE])
        ELSE IF ~f.line_has_code /\ is_import_statement(f)
             THEN [skip_to_end_of_line(f) EXCEPT !.line_has_code = TRUE]
        ELSE IF PyIsDocstring(f) THEN [skip_docstring(f, c) EXCEPT !.line_has_comment = TRUE]
        ELSE IF c \in {"\"", "'"} THEN PushToken(PyParseString(code))
        ELSE IF PyAtSinglePrefix(f) THEN PushToken(PyParseString(PyAdvance(code)))
        ELSE IF PyAtDoublePrefix(f) THEN PushToken(PyParseString(PyAdvanceN(code, 2)))
        ELSE IF is_digit(c) \/ (c = "." /\ is_digit(peek_next(f))) THEN PushToken(PyParseNumber(code))
        ELSE IF is_identifier_start(c) THEN PushToken(PyParseIdentifierOrKeyword(code))
        ELSE IF c \in PyOperatorChars THEN PushToken(PyParseOperator(code))
        ELSE PyAdvance(f)

(* The part of an iteration before the chain: the line metrics and, at a line *)
(* start, the indentation.                                                    *)
PyLineStart(f) ==
    LET f1 == handle_line_metrics(f)
    IN  IF f1.at_line_start /\ peek(f1) \notin {"\n", "#"} THEN process_indentation(f1) ELSE f1

(* One iteration of the loop of PythonNormalizer::normalize. *)
PyIteration(f) ==
    LET f1 == PyLineStart(f)
    IN  IF eof(f1) THEN f1 ELSE PyDispatch(f1)

(* emit_remaining_dedents with `if' in the place of `while': one level closed. *)
EmitOneDedent(f) ==
    IF Len(f.indent_stack) > 1
    THEN [f EXCEPT !.indent_stack = SubSeq(@, 1, Len(@) - 1),
                   !.tokens = Append(@, StructuralToken("DEDENT", "DEDENT", f, 0))]
    ELSE f

RECURSIVE emit_remaining_dedents(_)
emit_remaining_dedents(f) ==
    IF Len(f.indent_stack) > 1
    THEN emit_remaining_dedents([f EXCEPT !.indent_stack = SubSeq(@, 1, Len(@) - 1),
                                          !.tokens = Append(@, StructuralToken("DEDENT", "DEDENT", f, 0))])
    ELSE f

PyFinish(f) == emit_remaining_dedents(FinalLine(f))

(***************************************************************************)
(* The state machine.  engine is the engine instance normalize is called   *)
(* on; state, metrics and tokens are the locals of the running call;       *)
(* result is what the call returned; calls counts the calls made on the    *)
(* instance and first remembers the first call's input and result; peer is *)
(* a call made on the same instance by a second thread; factory is the     *)
(* last call of an engine factory, server the socket server and motor the  *)
(* last call of one of the motor's other functions (request parsing, file  *)
(* scanning, line counting).                                               *)
(***************************************************************************)
StateFields == {"source", "pos", "line", "column", "at_line_start"}
PyStateFields == StateFields \cup {"indent_stack"}
MetricsFields ==
    {"code_lines", "blank_lines", "comment_lines", "current_line",
     "line_has_code", "line_has_comment"}

Frame == state @@ metrics @@ [tokens |-> tokens]
Project(f, fields) == [k \in fields |-> f[k]]

NoResult == [path |-> "none"]

(* The concatenation of a sequence of fragments. *)
RECURSIVE Concat(_)
Concat(fs) == IF fs = <<>> THEN <<>> ELSE fs[1] \o Concat(Tail(fs))

(* The inputs built from at most n fragments of frags. *)
Inputs(frags, n) == {Concat(fs) : fs \in UNION {[1..k -> frags] : k \in 0..n}}

(* normalize with its locals declared static: the line counters of the    *)
(* previous call are still there when the next call starts.               *)
StaleLocals(e, source) ==
    (IF e = "cpp" THEN CppInitState(source) ELSE PyInitState(source))
       @@ metrics @@ [tokens |-> <<>>]

(* The locals of normalize as it declares them: cursor at the start of the *)
(* text, zeroed metrics, empty result.                                     *)
NewLocals(e, source) ==
    (IF e = "cpp" THEN CppInitState(source) @@ CppInitMetrics
                  ELSE PyInitState(source) @@ PyInitMetrics) @@ [tokens |-> <<>>]

(* No second thread has called normalize. *)
NoPeer == [pc |-> "idle"]

(* No factory function has been called; no server has been constructed. *)
NoFactory == [call |-> "none"]
NoServer == [run |-> "none"]

(* None of the motor's other functions has been called. *)
NoMotor == [call |-> "none"]

Store(f, fields) ==
    /\ state' = Project(f, fields)
    /\ metrics' = Project(f, MetricsFields)
    /\ tokens' = f.tokens

(* normalize is entered on engine e. *)
Enter(e, source) ==
    /\ engine' = e
    /\ Store(NewLocals(e, source), IF e = "cpp" THEN StateFields ELSE PyStateFields)
    /\ result' = NoResult
    /\ pc' = "scan"

InitWith(cppInputs, pyInputs) ==
    /\ engine \in {"cpp", "py"}
    /\ \E source \in (IF engine = "cpp" THEN cppInputs ELSE pyInputs) :
          state = IF engine = "cpp" THEN CppInitState(source) ELSE PyInitState(source)
    /\ metrics = IF engine = "cpp" THEN CppInitMetrics ELSE PyInitMetrics
    /\ tokens = <<>>
    /\ result = NoResult
    /\ pc = "scan"
    /\ calls = 1
    /\ first = NoResult
    /\ peer = NoPeer
    /\ factory = NoFactory
    /\ motor = NoMotor
    /\ server = NoServer

CppScan ==
    /\ pc = "scan" /\ engine = "cpp" /\ ~eof(state)
    /\ Store(CppIteration(Frame), StateFields)
    /\ UNCHANGED <<engine, result, pc, calls, first, peer, factory, server, motor>>

PyScan ==
    /\ pc = "scan" /\ engine = "py" /\ ~eof(state)
    /\ Store(PyIteration(Frame), PyStateFields)
    /\ UNCHANGED <<engine, result, pc, calls, first, peer, factory, server, motor>>

Return(f, fields) ==
    /\ Store(f, fields)
    /\ result' = TokenizedFile(f)
    /\ pc' = "done"
    /\ first' = IF calls = 1 THEN [source |-> state.source, result |-> TokenizedFile(f)] ELSE first
    /\ UNCHANGED <<engine, calls, peer, factory, server, motor>>

CppReturn == pc = "scan" /\ engine = "cpp" /\ eof(state) /\ Return(CppFinish(Frame), StateFields)

PyReturn == pc = "scan" /\ engine = "py" /\ eof(state) /\ Return(PyFinish(Frame), PyStateFields)

(* Fragments of C/C++ and of Python text. *)
CppFragments ==
    {<<"a">>, <<"1">>, <<" ">>, <<"\n">>, <<"\"">>, <<"'">>, <<"\\">>,
     <<"/">>, <<"*">>, <<"#">>, <<"R">>, <<"(">>}
PyFragments ==
    {<<"a">>, <<"1">>, <<" ">>, <<"\n">>, <<"\"">>, <<"\"", "\"", "\"">>, <<"\\">>,
     <<"#">>, <<":">>, <<"(">>, <<"i", "m", "p", "o", "r", "t", " ">>}

Init == InitWith(Inputs(CppFragments, MaxFrags), Inputs(PyFragments, MaxFrags))
Next == CppScan \/ PyScan \/ CppReturn \/ PyReturn
Spec == Init /\ [][Next]_vars

(***************************************************************************)
(* normalize as a function of the input: the loop run to the end.          *)
(***************************************************************************)
RECURSIVE CppRun(_)
CppRun(f) == IF eof(f) THEN CppFinish(f) ELSE CppRun(CppIteration(f))

RECURSIVE PyRun(_)
PyRun(f) == IF eof(f) THEN PyFinish(f) ELSE PyRun(PyIteration(f))

normalize(e, source) ==
    TokenizedFile(IF e = "cpp" THEN CppRun(NewLocals(e, source)) ELSE PyRun(NewLocals(e, source)))

(***************************************************************************)
(* Helpers of the properties.                                              *)
(***************************************************************************)
RECURSIVE CountType(_, _, _)
CountType(toks, type, k) ==
    IF k = 0 THEN 0
    ELSE CountType(toks, type, k - 1) + (IF toks[k].type = type THEN 1 ELSE 0)

Source == state.source
Done == pc = "done"

(***************************************************************************)
(* C1.  For every input and both engines the returned counters satisfy     *)
(* code_lines + blank_lines + comment_lines = total_lines, also when one   *)
(* construct spans several physical lines.                                 *)
(***************************************************************************)
C1_LineCountersSum ==
    Done => result.code_lines + result.blank_lines + result.comment_lines = result.total_lines

(***************************************************************************)
(* Python sources made of whole lines at several indentation widths.       *)
(***************************************************************************)
PyLines ==
    {<<"a", "\n">>, <<" ", "a", "\n">>, <<" ", " ", "a", "\n">>, <<"\t", "a", "\n">>,
     <<"\n">>, <<" ", " ", "#", "\n">>, <<" ", " ", "a">>}

InitIndent == InitWith({}, Inputs(PyLines, MaxLines))
NextPy == PyScan \/ PyReturn
SpecIndent == InitIndent /\ [][NextPy]_vars

(***************************************************************************)
(* C2.  In the Python token stream every prefix holds at least as many     *)
(* INDENT as DEDENT tokens; the returned stream holds as many DEDENT as    *)
(* INDENT tokens, the levels open at the end of the input being closed by  *)
(* trailing DEDENTs; and indent_stack is <<0>> when normalize returns.     *)
(***************************************************************************)
C2_IndentBalance ==
    /\ \A k \in 0..Len(tokens) : CountType(tokens, "DEDENT", k) <= CountType(tokens, "INDENT", k)
    /\ Done => /\ result.tokens = tokens
               /\ CountType(tokens, "DEDENT", Len(tokens)) = CountType(tokens, "INDENT", Len(tokens))
               /\ state.indent_stack = <<0>>

(* Two levels are open at the end of the input and are closed at return. *)
C2_Witness ==
    /\ Done
    /\ Len(tokens) >= 2
    /\ tokens[Len(tokens)].type = "DEDENT" /\ tokens[Len(tokens) - 1].type = "DEDENT"
    /\ CountType(tokens, "INDENT", Len(tokens)) >= 2
    /\ Source[Len(Source)] # "\n"

(***************************************************************************)
(* Sources made of words and literals of every token kind.                 *)
(***************************************************************************)
CppWords ==
    {<<"i", "f", " ">>, <<"i", "n", "t", " ">>, <<"x", " ">>, <<"1">>, <<"\"", "s", "\"">>,
     <<"'", "c", "'">>, <<"+">>, <<"(">>}
PyWords ==
    {<<"i", "f", " ">>, <<"i", "n", "t", " ">>, <<"x", " ">>, <<"1">>, <<"\"", "s", "\"">>,
     <<"+">>, <<"(">>, <<"\n">>}

InitKinds == InitWith(Inputs(CppWords, MaxFrags), Inputs(PyWords, MaxFrags))
SpecKinds == InitKinds /\ [][Next]_vars

KeptKinds == {"KEYWORD", "OPERATOR", "PUNCTUATION"}
PlaceholderKinds == {"IDENTIFIER", "TYPE", "STRING_LITERAL", "NUMBER_LITERAL"}
HasKind(kinds) == \E i \in 1..Len(tokens) : tokens[i].type \in kinds

(***************************************************************************)
(* C3.  Every emitted token of kind KEYWORD, OPERATOR or PUNCTUATION has   *)
(* normalized_hash = original_hash; every emitted token of kind            *)
(* IDENTIFIER, TYPE, STRING_LITERAL or NUMBER_LITERAL has the placeholder  *)
(* hash of its kind, whatever its text.  Both engines.                     *)
(***************************************************************************)
C3_NormalizedHashByKind ==
    \A i \in 1..Len(tokens) :
       /\ tokens[i].type \in KeptKinds => tokens[i].normalized_hash = tokens[i].original_hash
       /\ tokens[i].type \in PlaceholderKinds =>
             tokens[i].normalized_hash = hash_placeholder(tokens[i].type)

(* A returned stream with a keyword, an operator, an identifier and a literal. *)
C3_Witness ==
    /\ Done
    /\ HasKind({"KEYWORD"}) /\ HasKind({"OPERATOR"}) /\ HasKind({"IDENTIFIER"})
    /\ HasKind({"STRING_LITERAL", "NUMBER_LITERAL"})

(***************************************************************************)
(* Renaming of identifiers.  The sources are made of a word, a keyword, a  *)
(* digit, a quote and separators; Lexemes are the spellings a word is      *)
(* replaced by (a keyword, a string prefix and a number suffix among them).*)
(***************************************************************************)
CppRenameFragments ==
    {<<"a">>, <<" ">>, <<"1">>, <<"\"">>, <<"(">>, <<"i", "f", " ">>, <<"'">>}
PyRenameFragments ==
    {<<"a">>, <<" ">>, <<"1">>, <<"\"">>, <<"(">>, <<"i", "f", " ">>, <<"\n">>}
Lexemes == {<<"b">>, <<"L">>, <<"u">>, <<"c", "d">>, <<"i", "f">>}

InitRename == InitWith(Inputs(CppRenameFragments, MaxWords), Inputs(PyRenameFragments, MaxWords))
SpecRename == InitRename /\ [][Next]_vars

(* The offset in src at which line number line starts, counting from offset i. *)
RECURSIVE LineStart(_, _, _)
LineStart(src, line, i) ==
    IF line = 1 \/ i >= Len(src) THEN i
    ELSE LineStart(src, IF src[i + 1] = "\n" THEN line - 1 ELSE line, i + 1)

(* The offset of a token in the text it was read from. *)
TokPos(src, t) == LineStart(src, t.line, 0) + t.column - 1

IdentifierIdx(toks) == {i \in 1..Len(toks) : toks[i].type = "IDENTIFIER"}

(* The renamings of a token stream: a new spelling for every identifier. *)
Renamings(toks) == [IdentifierIdx(toks) -> Lexemes]

(* src with the identifiers among the first i tokens respelled, last first. *)
RECURSIVE RenameFrom(_, _, _, _)
RenameFrom(src, toks, choice, i) ==
    IF i = 0 THEN src
    ELSE IF toks[i].type # "IDENTIFIER" THEN RenameFrom(src, toks, choice, i - 1)
    ELSE LET at == TokPos(src, toks[i])
         IN  RenameFrom(SubSeq(src, 1, at) \o choice[i] \o SubSeq(src, at + toks[i].length + 1, Len(src)),
                        toks, choice, i - 1)

Renamed(choice) == RenameFrom(Source, tokens, choice, Len(tokens))

(* How far the renaming moves the text that starts at token i. *)
RECURSIVE Shift(_, _, _)
Shift(toks, choice, i) ==
    IF i = 0 THEN 0
    ELSE Shift(toks, choice, i - 1)
         + (IF toks[i].type = "IDENTIFIER" THEN Len(choice[i]) - toks[i].length ELSE 0)

(* The two inputs differ in the spelling of identifiers only: where the    *)
(* first has an identifier the second has the new spelling, and the engine *)
(* classifies it IDENTIFIER there.                                         *)
SpellingOnly(choice, src2, toks2) ==
    \A i \in IdentifierIdx(tokens) :
       \E j \in IdentifierIdx(toks2) :
          /\ TokPos(src2, toks2[j]) = TokPos(Source, tokens[i]) + Shift(tokens, choice, i - 1)
          /\ toks2[j].length = Len(choice[i])

SameShape(toks2) ==
    /\ Len(toks2) = Len(tokens)
    /\ \A i \in 1..Len(tokens) :
          /\ toks2[i].type = tokens[i].type
          /\ toks2[i].normalized_hash = tokens[i].normalized_hash
          /\ tokens[i].type = "IDENTIFIER" => toks2[i].original_hash # tokens[i].original_hash

(***************************************************************************)
(* C4.  Two inputs that differ only in the spelling of identifiers, each   *)
(* replaced by another spelling that the engine also classifies            *)
(* IDENTIFIER, give token streams of the same length with the same kinds   *)
(* and the same normalized hashes, and different original hashes at the    *)
(* renamed tokens.                                                         *)
(***************************************************************************)
C4_RenamingInvariance ==
    Done => \A choice \in Renamings(tokens) :
               LET src2 == Renamed(choice)
                   toks2 == normalize(engine, src2).tokens
               IN  SpellingOnly(choice, src2, toks2) => SameShape(toks2)

(* Two identifiers, a keyword or a literal between or around them, and a   *)
(* renaming to spellings of another length that the engine accepts.        *)
C4_Witness ==
    /\ Done
    /\ Cardinality(IdentifierIdx(tokens)) >= 2
    /\ Len(tokens) >= 3
    /\ \E choice \in Renamings(tokens) :
          /\ \E i \in IdentifierIdx(tokens) : Len(choice[i]) # tokens[i].length
          /\ SpellingOnly(choice, Renamed(choice), normalize(engine, Renamed(choice)).tokens)

(***************************************************************************)
(* Several calls of normalize on one engine instance.                      *)
(***************************************************************************)
CallFragments == {<<"a">>, <<" ">>, <<"\n">>, <<"\"">>}
CallInputs == Inputs(CallFragments, MaxCallFrags)

(* The caller calls normalize again, on the same instance. *)
Call ==
    /\ pc = "done" /\ calls < MaxCalls
    /\ \E source \in CallInputs : Enter(engine, source)
    /\ calls' = calls + 1
    /\ UNCHANGED <<first, peer, factory, server, motor>>

InitCalls == InitWith(CallInputs, CallInputs)
NextCalls == CppScan \/ PyScan \/ CppReturn \/ PyReturn \/ Call
SpecCalls == InitCalls /\ [][NextCalls]_vars

CppOpenFragments ==
    {<<"\"">>, <<"R", "\"", "(">>, <<"/", "*">>, <<"/", "/">>, <<"'">>, <<"\\">>,
     <<"a">>, <<"\n">>, <<"#">>, <<"@">>}
PyOpenFragments ==
    {<<"\"">>, <<"\"", "\"", "\"">>, <<"i", "m", "p", "o", "r", "t", " ", "(">>, <<"\\">>,
     <<"a">>, <<"\n">>, <<"#">>, <<" ">>, <<"@">>, <<"$">>}

InitTotal == InitWith(Inputs(CppOpenFragments, MaxFrags), Inputs(PyOpenFragments, MaxFrags))
SpecTotal == InitTotal /\ [][Next]_vars

(* The locals of normalize after the loop iteration that starts in this state. *)
AfterIteration == IF engine = "cpp" THEN CppIteration(Frame) ELSE PyIteration(Frame)

(***************************************************************************)
(* C6.  normalize terminates on every input, the empty one and the ones    *)
(* with unterminated constructs included: the iteration of the scan loop   *)
(* that starts in any state the loop reaches leaves the cursor at least    *)
(* one character further and not beyond the end of the input, so the loop  *)
(* ends after at most Len(Source) iterations; and the cursor is never      *)
(* beyond the end of the input.                                            *)
(***************************************************************************)
C6_Terminates ==
    /\ state.pos <= Len(Source)
    /\ (pc = "scan" /\ ~eof(state)) =>
          /\ AfterIteration.pos > state.pos
          /\ AfterIteration.pos <= Len(Source)

(* normalize has returned on a text that opens a raw string, a block       *)
(* comment or a triple-quoted string and never closes it.                  *)
C6_Witness ==
    /\ Done /\ state.pos = Len(Source) /\ Len(Source) >= 4
    /\ \/ engine = "cpp" /\ SubSeq(Source, 1, 3) = <<"R", "\"", "(">>
          /\ \A i \in 1..Len(Source) : Source[i] # ")"
       \/ engine = "cpp" /\ SubSeq(Source, 1, 2) = <<"/", "*">>
          /\ \A i \in 3..Len(Source) : Source[i] # "/"
       \/ engine = "py" /\ SubSeq(Source, 1, 3) = <<"\"", "\"", "\"">>
          /\ \A i \in 4..Len(Source) : Source[i] # "\""

(***************************************************************************)
(* Python sources with triple-quoted strings after block headers, at the   *)
(* start of the text, after a dedent, behind code and behind a prefix.     *)
(***************************************************************************)
DocFragments ==
    {<<"\"", "\"", "\"">>, <<"a", ":">>, <<" ">>, <<"\n">>, <<"r">>, <<"x">>, <<"#">>}

InitDocstring == InitWith({}, Inputs(DocFragments, MaxDocFrags))
SpecDocstring == InitDocstring /\ [][NextPy]_vars

(* The locals of normalize when the iteration that starts in this state    *)
(* has classified the previous line and read the indentation.              *)
AtToken == PyLineStart(Frame)

(* The token at the cursor starts with three quotes; with a prefix letter  *)
(* and three quotes.                                                       *)
AtTripleQuoted == ~eof(AtToken) /\ PyAtTripleQuote(AtToken)
AtPrefixedTripleQuoted ==
    /\ ~eof(AtToken)
    /\ \E n \in {1, 2} :
          /\ n = 1 => peek(AtToken) \in {"f", "F", "r", "R", "b", "B"}
          /\ n = 2 => /\ peek(AtToken) \in {"f", "F", "r", "R"}
                      /\ peek_at(AtToken, 1) \in {"f", "F", "r", "R"}
          /\ peek_at(AtToken, n) \in {"\"", "'"}
          /\ peek_at(AtToken, n + 1) = peek_at(AtToken, n)
          /\ peek_at(AtToken, n + 2) = peek_at(AtToken, n)

(* The step emits nothing for the literal and marks its line as comment.   *)
Elided ==
    /\ tokens' = AtToken.tokens
    /\ metrics'.line_has_comment
    /\ metrics'.line_has_code = AtToken.line_has_code

(* The step emits one STRING_LITERAL and marks its line as code.           *)
Emitted ==
    /\ Len(tokens') = Len(AtToken.tokens) + 1
    /\ SubSeq(tokens', 1, Len(AtToken.tokens)) = AtToken.tokens
    /\ tokens'[Len(tokens')].type = "STRING_LITERAL"
    /\ metrics'.line_has_code

(* No token of toks is outside skipped, or the last one outside skipped is *)
(* the PUNCTUATION ':'.                                                    *)
AfterColon(toks, skipped) ==
    \E i \in 1..Len(toks) :
       /\ \A j \in (i + 1)..Len(toks) : toks[j].type \in skipped
       /\ toks[i].type = "PUNCTUATION" /\ toks[i].original_hash = hash_string(":")
OnlyOf(toks, skipped) == \A j \in 1..Len(toks) : toks[j].type \in skipped

PyStep == pc = "scan" /\ engine = "py" /\ ~eof(state)

(***************************************************************************)
(* C7 as stated.  A triple-quoted string literal is elided exactly when no *)
(* token has been emitted before it or the nearest preceding token that is *)
(* not NEWLINE, INDENT or DEDENT is the PUNCTUATION ':'; otherwise it is   *)
(* emitted as a STRING_LITERAL and counted as code.                        *)
(***************************************************************************)
C7_AsStated ==
    [][(PyStep /\ AtTripleQuoted) =>
          IF AtToken.tokens = <<>> \/ AfterColon(AtToken.tokens, {"NEWLINE", "INDENT", "DEDENT"})
          THEN Elided ELSE Emitted]_vars

(***************************************************************************)
(* C7.  A triple-quoted string literal without prefix letter is elided     *)
(* exactly when its line has no code before it and either no token other  *)
(* than NEWLINE and INDENT has been emitted before it or the nearest       *)
(* preceding token that is not NEWLINE or INDENT is the PUNCTUATION ':';   *)
(* in every other position, and whenever it has a string prefix (f, r or   *)
(* b, or two letters of f and r), it is emitted as a STRING_LITERAL and    *)
(* its line is counted as code.                                            *)
(***************************************************************************)
C7_DocstringContext ==
    [][/\ (PyStep /\ AtTripleQuoted) =>
             IF /\ ~AtToken.line_has_code
                /\ \/ OnlyOf(AtToken.tokens, {"NEWLINE", "INDENT"})
                   \/ AfterColon(AtToken.tokens, {"NEWLINE", "INDENT"})
             THEN Elided ELSE Emitted
       /\ (PyStep /\ AtPrefixedTripleQuoted) => Emitted]_vars

(* A triple-quoted string was emitted behind a DEDENT that follows a ':'.  *)
C7_Witness ==
    /\ Done
    /\ \E i \in 2..Len(tokens) :
          /\ tokens[i].type = "STRING_LITERAL" /\ tokens[i - 1].type = "DEDENT"
          /\ AfterColon(SubSeq(tokens, 1, i - 1), {"NEWLINE", "INDENT", "DEDENT"})

(* src is one line that holds a triple-quoted string and nothing else. *)
OneLineDocstring(src) ==
    /\ Len(src) >= 6
    /\ SubSeq(src, 1, 3) = <<"\"", "\"", "\"">>
    /\ \E n \in 4..(Len(src) - 2) :
          /\ SubSeq(src, n, n + 2) = <<"\"", "\"", "\"">>
          /\ \A i \in 4..(n - 1) : src[i] \notin {"\"", "\\", "\n"}
          /\ \/ Len(src) = n + 2
             \/ Len(src) = n + 3 /\ src[n + 3] = "\n"

(* A line is classified: by the step that finds the cursor on another line *)
(* than the one being counted, or by the code after the loop.              *)
LineClassified ==
    /\ pc = "scan" /\ engine = "py" /\ metrics.current_line > 0
    /\ eof(state) \/ state.line # metrics.current_line

(***************************************************************************)
(* C8.  An elided docstring leaves no token and marks its line as comment: *)
(* the line is counted as a comment line unless it also carries code, and  *)
(* then as a code line.  A text of one line that holds only a              *)
(* triple-quoted string gives 0 tokens, total_lines = 1, comment_lines =   *)
(* 1, code_lines = 0 and blank_lines = 0.                                  *)
(***************************************************************************)
C8_ElidedDocstring ==
    /\ [][(PyStep /\ AtTripleQuoted /\ tokens' = AtToken.tokens) =>
             /\ metrics'.line_has_comment /\ ~metrics'.line_has_code
             /\ metrics'.current_line = AtToken.line
             /\ state'.pos >= AtToken.pos + 3]_vars
    /\ [][(LineClassified /\ metrics.line_has_comment) =>
             IF metrics.line_has_code
             THEN /\ metrics'.code_lines = metrics.code_lines + 1
                  /\ metrics'.comment_lines = metrics.comment_lines
             ELSE /\ metrics'.comment_lines = metrics.comment_lines + 1
                  /\ metrics'.code_lines = metrics.code_lines]_vars
    /\ [](Done /\ OneLineDocstring(Source) =>
             /\ result.tokens = <<>>
             /\ result.total_lines = 1 /\ result.comment_lines = 1
             /\ result.code_lines = 0 /\ result.blank_lines = 0)

(* normalize has returned on a one-line docstring with a body. *)
C8_Witness == Done /\ OneLineDocstring(Source) /\ Len(Source) >= 7 /\ result.comment_lines = 1

(***************************************************************************)
(* C/C++ sources with '#' at the start of lines, behind blanks, behind     *)
(* code, and with backslashes before and away from the ends of lines.      *)
(***************************************************************************)
DirectiveFragments ==
    {<<"#">>, <<"a">>, <<" ">>, <<"\t">>, <<"\\", "\n">>, <<"\\">>, <<"\n">>}

InitDirective == InitWith(Inputs(DirectiveFragments, MaxFrags), {})
NextCpp == CppScan \/ CppReturn
SpecDirective == InitDirective /\ [][NextCpp]_vars

(* The character at offset pos of src is the first of its line, spaces and *)
(* tabs aside.                                                             *)
FirstOnLine(src, pos) ==
    \A i \in 1..pos : (\A j \in i..pos : src[j] # "\n") => src[i] \in {" ", "\t"}

(* The offsets of the newlines behind offset pos that no backslash precedes. *)
LineEnds(src, pos) == {k \in (pos + 1)..(Len(src) - 1) : src[k + 1] = "\n" /\ src[k] # "\\"}

(* The offset at which the directive that starts at offset pos ends. *)
DirectiveEnd(src, pos) ==
    IF LineEnds(src, pos) = {} THEN Len(src)
    ELSE CHOOSE k \in LineEnds(src, pos) : \A m \in LineEnds(src, pos) : k <= m

CppStep == pc = "scan" /\ engine = "cpp" /\ ~eof(state)

(* src is one line that holds a directive without backslash. *)
OneLineDirective(src) ==
    /\ Len(src) >= 2 /\ src[1] = "#"
    /\ \A i \in 1..(Len(src) - 1) : src[i] \notin {"\n", "\\"}
    /\ src[Len(src)] # "\\"

RawFragments ==
    {<<"R", "\"", "(">>, <<"R", "\"", "d", "(">>, <<"a", ")", "b", "(", "c">>, <<")", "\"">>,
     <<")", "d", "\"">>, <<")">>, <<"\"">>, <<" ">>}

InitRawString == InitWith(Inputs(RawFragments, MaxFrags), {})
SpecRawString == InitRawString /\ [][NextCpp]_vars

(* The offset of the opening parenthesis of the raw string at offset pos. *)
RawOpen(src, pos) ==
    CHOOSE q \in (pos + 2)..(Len(src) - 1) :
       src[q + 1] = "(" /\ \A i \in (pos + 2)..(q - 1) : src[i + 1] # "("

(* The closing marker of the raw string at offset pos. *)
RawMarker(src, pos) == <<")">> \o SubSeq(src, pos + 3, RawOpen(src, pos)) \o <<"\"">>

(* The offsets behind the opening parenthesis at which the marker stands. *)
RawMarkerAt(src, pos) ==
    {k \in (RawOpen(src, pos) + 1)..(Len(src) - Len(RawMarker(src, pos))) :
        SubSeq(src, k + 1, k + Len(RawMarker(src, pos))) = RawMarker(src, pos)}

(* The cursor is on a raw string that has its opening parenthesis and its  *)
(* closing marker.                                                         *)
AtClosedRawString ==
    /\ peek(state) = "R" /\ peek_next(state) = "\""
    /\ \E q \in (state.pos + 2)..(Len(Source) - 1) : Source[q + 1] = "("
    /\ RawMarkerAt(Source, state.pos) # {}

RawExample == <<"R", "\"", "(", "a", ")", "b", "(", "c", ")", "\"">>

(***************************************************************************)
(* C10.  In the C/C++ engine a raw string R"delim( ... )delim" is emitted  *)
(* as exactly one STRING_LITERAL token that ends with the first occurrence *)
(* behind the opening parenthesis of the exact marker ')' delim '"': a ')' *)
(* or a '"' of the body outside that marker does not end it.  Its length   *)
(* runs from the R through the closing quote; R"(a)b(c)" is one token of   *)
(* length 10.                                                              *)
(***************************************************************************)
C10_RawString ==
    /\ [][(CppStep /\ AtClosedRawString) =>
             LET first_marker == CHOOSE k \in RawMarkerAt(Source, state.pos) :
                                    \A m \in RawMarkerAt(Source, state.pos) : k <= m
                 end == first_marker + Len(RawMarker(Source, state.pos))
             IN  /\ state'.pos = end
                 /\ Len(tokens') = Len(tokens) + 1
                 /\ SubSeq(tokens', 1, Len(tokens)) = tokens
                 /\ tokens'[Len(tokens')].type = "STRING_LITERAL"
                 /\ tokens'[Len(tokens')].line = state.line
                 /\ tokens'[Len(tokens')].column = state.column
                 /\ tokens'[Len(tokens')].length = end - state.pos]_vars
    /\ [](Done /\ Source = RawExample =>
             /\ Len(result.tokens) = 1
             /\ result.tokens[1].type = "STRING_LITERAL"
             /\ result.tokens[1].length = 10)

(* normalize has returned on R"(a)b(c)" with its one token. *)
C10_Witness == Done /\ Source = RawExample /\ Len(result.tokens) = 1

(***************************************************************************)
(* Python sources with import lines: plain, indented, continued by a       *)
(* backslash, with a parenthesised list over several lines, behind code.   *)
(***************************************************************************)
ImportWord == <<"i", "m", "p", "o", "r", "t", " ">>
FromWord == <<"f", "r", "o", "m", " ">>
ImportFragments ==
    {ImportWord, FromWord, <<"a">>, <<"(">>, <<")">>, <<"\\", "\n">>, <<"\n">>, <<" ">>, <<"\"">>}

InitImport == InitWith({}, Inputs(ImportFragments, MaxFrags))
SpecImport == InitImport /\ [][NextPy]_vars

(* The text at offset pos of src starts with word. *)
StartsWith(src, pos, word) ==
    pos + Len(word) <= Len(src) /\ SubSeq(src, pos + 1, pos + Len(word)) = word

(* The depth of parentheses behind the first i characters of src, counted  *)
(* from offset pos; a ')' that closes nothing is not counted.              *)
RECURSIVE ParenDepth(_, _, _)
ParenDepth(src, pos, i) ==
    IF i <= pos THEN 0
    ELSE LET d == ParenDepth(src, pos, i - 1)
         IN  IF src[i] = "(" THEN d + 1
             ELSE IF src[i] = ")" /\ d > 0 THEN d - 1 ELSE d

(* The offsets of the newlines behind offset pos that end the statement:   *)
(* outside every parenthesis and with no backslash before them.            *)
StatementEnds(src, pos) ==
    {k \in (pos + 1)..(Len(src) - 1) :
        src[k + 1] = "\n" /\ src[k] # "\\" /\ ParenDepth(src, pos, k) = 0}

StatementEnd(src, pos) ==
    IF StatementEnds(src, pos) = {} THEN Len(src)
    ELSE CHOOSE k \in StatementEnds(src, pos) : \A m \in StatementEnds(src, pos) : k <= m

(* The cursor, the indentation read, is on the first content of its line   *)
(* and that content is 'import ' or 'from '.                               *)
AtImportLine ==
    /\ ~eof(AtToken)
    /\ FirstOnLine(Source, AtToken.pos)
    /\ StartsWith(Source, AtToken.pos, ImportWord) \/ StartsWith(Source, AtToken.pos, FromWord)

(* src is one line that holds an import without backslash or parenthesis. *)
OneLineImport(src) ==
    /\ StartsWith(src, 0, ImportWord) \/ StartsWith(src, 0, FromWord)
    /\ \A i \in 1..(Len(src) - 1) : src[i] # "\n"

(***************************************************************************)
(* C11.  In the Python engine a line whose first content is 'import ' or   *)
(* 'from ' is consumed as one unit up to the first newline that stands     *)
(* outside every parenthesis and behind no backslash, or to the end of the *)
(* text; no token is emitted for it and its line is marked and counted as  *)
(* a code line.  'from a' alone gives 0 tokens and one code line.          *)
(***************************************************************************)
C11_ImportLine ==
    /\ [][(PyStep /\ AtImportLine) =>
             /\ state'.pos = StatementEnd(Source, AtToken.pos)
             /\ tokens' = AtToken.tokens
             /\ metrics'.line_has_code
             /\ metrics'.current_line = AtToken.line]_vars
    /\ [](Done /\ OneLineImport(Source) =>
             /\ result.tokens = <<>>
             /\ result.total_lines = 1 /\ result.code_lines = 1
             /\ result.comment_lines = 0 /\ result.blank_lines = 0)

(* An import with a parenthesised list that holds a newline was consumed   *)
(* to the end of the text.                                                 *)
C11_Witness ==
    /\ Done /\ StartsWith(Source, 0, ImportWord)
    /\ \E i \in 1..Len(Source) : Source[i] = "\n" /\ ParenDepth(Source, 0, i) > 0
    /\ StatementEnd(Source, 0) = Len(Source)
    /\ result.tokens = <<>> /\ result.code_lines = 1

(***************************************************************************)
(* Identifier-shaped lexemes: words of the three tables, plain names, and  *)
(* what may stand around them, with the text of the example of C12.        *)
(***************************************************************************)
CppIdentFragments ==
    {<<"i", "n", "t">>, <<"n", "u", "l", "l", "p", "t", "r">>, <<"s", "e", "t">>,
     <<"x", "1">>, <<"_">>, <<"L">>, <<" ">>, <<"\"">>, <<"1">>, <<"(">>}
PyIdentFragments ==
    {<<"i", "f">>, <<"i", "n", "t">>, <<"s", "e", "t">>,
     <<"x", "1">>, <<"_">>, <<"f">>, <<" ">>, <<"\"">>, <<"1">>, <<"\n">>}

MainExample ==
    <<"i", "n", "t", " ", "m", "a", "i", "n", "(", ")", " ", "{", " ",
      "r", "e", "t", "u", "r", "n", " ", "0", ";", " ", "}">>

InitIdent ==
    InitWith(Inputs(CppIdentFragments, MaxIdentFrags) \cup {MainExample},
             Inputs(PyIdentFragments, MaxIdentFrags))
SpecIdent == InitIdent /\ [][Next]_vars

(* The offset at which the run of identifier characters from offset pos ends. *)
RECURSIVE IdentEnd(_, _)
IdentEnd(src, pos) ==
    IF pos < Len(src) /\ is_identifier_char(src[pos + 1]) THEN IdentEnd(src, pos + 1) ELSE pos

(* The characters of a text as one string. *)
RECURSIVE Spelling(_)
Spelling(chars) == IF chars = <<>> THEN "" ELSE chars[1] \o Spelling(Tail(chars))

WordAt(src, pos) == Spelling(SubSeq(src, pos + 1, IdentEnd(src, pos)))

(* The kind the tables of an engine give a word. *)
KindByTables(e, word) ==
    IF e = "cpp"
    THEN IF word \in CppKeywords \cup CppModernKeywords THEN "KEYWORD"
         ELSE IF word \in CppBuiltinTypes THEN "TYPE" ELSE "IDENTIFIER"
    ELSE IF word \in PyKeywords THEN "KEYWORD"
         ELSE IF word \in PyBuiltinTypes THEN "TYPE" ELSE "IDENTIFIER"

(* The cursor of the C/C++ engine is on the first character of an          *)
(* identifier-shaped lexeme: a letter or '_' that is not the prefix of a   *)
(* string or character literal.                                            *)
AtCppWord ==
    LET f == handle_line_metrics(Frame)
    IN  /\ is_identifier_start(peek(f))
        /\ ~CppAtRawString(f) /\ ~CppAtQuoted(f, "\"") /\ ~CppAtQuoted(f, "'")

(* The same for the Python engine, the indentation read: a letter or '_'   *)
(* that is neither the prefix of a string literal nor the start of an      *)
(* import line.                                                            *)
AtPyWord ==
    /\ ~eof(AtToken) /\ is_identifier_start(peek(AtToken))
    /\ ~(~AtToken.line_has_code /\ is_import_statement(AtToken))
    /\ ~PyIsDocstring(AtToken) /\ ~PyAtSinglePrefix(AtToken) /\ ~PyAtDoublePrefix(AtToken)

(* The step appends exactly one token: the word at the cursor, whole, with *)
(* the kind its engine's tables give it.                                   *)
EmitsWord(before) ==
    /\ Len(tokens') = Len(before.tokens) + 1
    /\ SubSeq(tokens', 1, Len(before.tokens)) = before.tokens
    /\ state'.pos = IdentEnd(Source, before.pos)
    /\ tokens'[Len(tokens')].type = KindByTables(engine, WordAt(Source, before.pos))
    /\ tokens'[Len(tokens')].original_hash = hash_string(WordAt(Source, before.pos))
    /\ tokens'[Len(tokens')].line = before.line
    /\ tokens'[Len(tokens')].column = before.column

Kinds(toks) == [i \in 1..Len(toks) |-> toks[i].type]

(***************************************************************************)
(* C12.  Every identifier-shaped lexeme is emitted as one token that holds *)
(* the whole run of letters, digits and '_', of kind KEYWORD if the word   *)
(* is in the engine's keyword tables, otherwise TYPE if it is in the       *)
(* built-in type table, otherwise IDENTIFIER.  The C/C++ text              *)
(* `int main() { return 0; }' gives the kinds KEYWORD, IDENTIFIER,         *)
(* PUNCTUATION x 3, KEYWORD, NUMBER_LITERAL, PUNCTUATION x 2 and one code  *)
(* line.                                                                   *)
(***************************************************************************)
C12_IdentifierKinds ==
    /\ [][(CppStep /\ AtCppWord) => EmitsWord(handle_line_metrics(Frame))]_vars
    /\ [][(PyStep /\ AtPyWord) => EmitsWord(AtToken)]_vars
    /\ [](Done /\ engine = "cpp" /\ Source = MainExample =>
             /\ Kinds(result.tokens) =
                    <<"KEYWORD", "IDENTIFIER", "PUNCTUATION", "PUNCTUATION", "PUNCTUATION",
                      "KEYWORD", "NUMBER_LITERAL", "PUNCTUATION", "PUNCTUATION">>
             /\ result.code_lines = 1)

(* The example was tokenized: nine tokens, `main' the second of them. *)
C12_Witness ==
    /\ Done /\ engine = "cpp" /\ Source = MainExample
    /\ Len(result.tokens) = 9
    /\ result.tokens[2].original_hash = hash_string("main")

(* The loop of the Python engine meets a line break: the cursor, the       *)
(* indentation read, is on a newline.                                      *)
AtLineBreak == ~eof(AtToken) /\ peek(AtToken) = "\n"

(* A token was emitted on the line the cursor is on. *)
TokenOnLine == \E i \in 1..Len(AtToken.tokens) : AtToken.tokens[i].line = AtToken.line

NoNewlinePair(toks) ==
    \A i \in 1..(Len(toks) - 1) : ~(toks[i].type = "NEWLINE" /\ toks[i + 1].type = "NEWLINE")
NoLeadingNewline(toks) == toks # <<>> => toks[1].type # "NEWLINE"

PositiveLengths(toks) ==
    \A i \in 1..Len(toks) : (toks[i].type = "DEDENT") = (toks[i].length = 0)

(***************************************************************************)
(* Lines at several indentation widths and one line indented by as many    *)
(* tabs as reach column 65536, the first width the 16-bit length field     *)
(* of a token cannot hold.                                                 *)
(***************************************************************************)
WideIndent == [i \in 1..(UInt16Range \div TabStop) |-> "\t"] \o <<"a">>

InitWide == InitWith({}, Inputs(PyLines, MaxLines) \cup {WideIndent})
SpecWide == InitWide /\ [][NextPy]_vars

(***************************************************************************)
(* C14.  Every token has a length above 0 except DEDENT, whose length is   *)
(* 0, also when the token or the indentation is wider than the 16-bit      *)
(* length field holds.                                                     *)
(***************************************************************************)
C14_PositiveLengths ==
    /\ engine = "py" => PositiveLengths(tokens)
    /\ Done => PositiveLengths(result.tokens)

(***************************************************************************)
(* Two threads call normalize on one engine instance.  The second call has *)
(* its own argument and its own locals (result, state, metrics are         *)
(* automatic variables of normalize); its iterations interleave with those *)
(* of the first call in every order.                                       *)
(***************************************************************************)

(* normalize with its locals made members of the engine: the second call   *)
(* works on the locals of the first.                                       *)
PeerSharesLocals == Frame

(* The locals of the second call. *)
PeerLocals == peer.f

PeerEnter ==
    /\ peer.pc = "idle"
    /\ \E source \in CallInputs :
          peer' = [pc |-> "scan", source |-> source, f |-> NewLocals(engine, source),
                   result |-> NoResult]
    /\ UNCHANGED <<engine, state, metrics, tokens, result, pc, calls, first, factory, server, motor>>

PeerScan ==
    /\ peer.pc = "scan" /\ ~eof(PeerLocals)
    /\ peer' = [peer EXCEPT !.f = IF engine = "cpp" THEN CppIteration(PeerLocals)
                                                    ELSE PyIteration(PeerLocals)]
    /\ UNCHANGED <<engine, state, metrics, tokens, result, pc, calls, first, factory, server, motor>>

PeerReturn ==
    /\ peer.pc = "scan" /\ eof(PeerLocals)
    /\ LET f == IF engine = "cpp" THEN CppFinish(PeerLocals) ELSE PyFinish(PeerLocals)
       IN  peer' = [peer EXCEPT !.pc = "done", !.f = f, !.result = TokenizedFile(f)]
    /\ UNCHANGED <<engine, state, metrics, tokens, result, pc, calls, first, factory, server, motor>>

NextThreads == CppScan \/ PyScan \/ CppReturn \/ PyReturn \/ PeerEnter \/ PeerScan \/ PeerReturn
SpecThreads == InitCalls /\ [][NextThreads]_vars

Extensions == {".py", ".pyw", ".c", ".hpp", ".js", ".ts", ".PY", ".txt", ""}

InitFactory ==
    /\ engine = "null"
    /\ state = CppInitState(<<>>)
    /\ metrics = CppInitMetrics
    /\ tokens = <<>>
    /\ result = NoResult
    /\ pc = "idle"
    /\ calls = 0
    /\ first = NoResult
    /\ peer = NoPeer
    /\ factory = NoFactory
    /\ motor = NoMotor
    /\ server = NoServer

CreateNormalizer ==
    /\ factory.call = "none"
    /\ \E language \in Languages :
          /\ factory' = [call |-> "create_normalizer", input |-> language,
                         language |-> language, normalizer |-> create_normalizer(language)]
          /\ engine' = create_normalizer(language)
    /\ UNCHANGED <<state, metrics, tokens, result, pc, calls, first, peer, server, motor>>

CreateNormalizerForFile ==
    /\ factory.call = "none"
    /\ \E extension \in Extensions : \E language \in detect_language(extension) :
          /\ factory' = [call |-> "create_normalizer_for_file", input |-> extension,
                         language |-> language, normalizer |-> create_normalizer(language)]
          /\ engine' = create_normalizer(language)
    /\ UNCHANGED <<state, metrics, tokens, result, pc, calls, first, peer, server, motor>>

(* The caller has the engine it was given normalize a text. *)
Tokenize ==
    /\ pc = "idle" /\ engine \in {"cpp", "py"}
    /\ \E source \in CallInputs : Enter(engine, source)
    /\ calls' = calls + 1
    /\ UNCHANGED <<first, peer, factory, server, motor>>

NextFactory ==
    CreateNormalizer \/ CreateNormalizerForFile \/ Tokenize
       \/ CppScan \/ PyScan \/ CppReturn \/ PyReturn
SpecFactory == InitFactory /\ [][NextFactory]_vars

(***************************************************************************)
(* C16.  create_normalizer returns the Python engine for PYTHON, the       *)
(* ECMAScript engine for JAVASCRIPT and TYPESCRIPT, the C/C++ engine for   *)
(* CPP and C and null for every other Language, and always returns;        *)
(* create_normalizer_for_file(ext) returns what create_normalizer returns  *)
(* for the language detect_language gives ext.                             *)
(***************************************************************************)
C16_Factory ==
    factory.call # "none" =>
        /\ factory.language = "PYTHON" => factory.normalizer = "py"
        /\ factory.language \in {"JAVASCRIPT", "TYPESCRIPT"} => factory.normalizer = "js"
        /\ factory.language \in {"CPP", "C"} => factory.normalizer = "cpp"
        /\ factory.language \notin {"PYTHON", "JAVASCRIPT", "TYPESCRIPT", "CPP", "C"}
              => factory.normalizer = "null"
        /\ engine = factory.normalizer
        /\ factory.call = "create_normalizer_for_file"
              => /\ factory.language \in detect_language(factory.input)
                 /\ factory.normalizer = create_normalizer(factory.language)

(* The engine made for `.c', detected as C, has normalized a text. *)
C16_Witness ==
    /\ factory.call = "create_normalizer_for_file"
    /\ factory.input = ".c" /\ factory.language = "C"
    /\ Done /\ engine = "cpp" /\ Len(result.tokens) >= 1

(***************************************************************************)
(* The socket server and the request handler of main.  server.run is the   *)
(* position of the thread inside SocketServer::run, server.stop that of a  *)
(* thread inside SocketServer::stop; running and server_socket are the     *)
(* members of Impl.  One client connects: stream holds the bytes it has    *)
(* still to send, received those recv has returned, accumulated the local  *)
(* of handle_client, handled the messages the handler was called with and  *)
(* sent what was passed to send.                                           *)
(***************************************************************************)
MaxRequests == 2

(* Request texts: a shutdown request, a file_tree request for the root d,  *)
(* a request with a method the protocol does not have.                     *)
ShutdownText ==
    <<"{", "\"", "i", "d", "\"", ":", "\"", "7", "\"", ",", "\"", "m", "e",
      "t", "h", "o", "d", "\"", ":", "\"", "s", "h", "u", "t", "d", "o",
      "w", "n", "\"", "}">>
FileTreeText ==
    <<"{", "\"", "i", "d", "\"", ":", "\"", "8", "\"", ",", "\"", "m", "e",
      "t", "h", "o", "d", "\"", ":", "\"", "f", "i", "l", "e", "_", "t",
      "r", "e", "e", "\"", ",", "\"", "p", "a", "r", "a", "m", "s", "\"",
      ":", "{", "\"", "r", "o", "o", "t", "\"", ":", "\"", "d", "\"", "}",
      "}">>
UnknownMethodText ==
    <<"{", "\"", "i", "d", "\"", ":", "\"", "9", "\"", ",", "\"", "m", "e",
      "t", "h", "o", "d", "\"", ":", "\"", "x", "\"", "}">>

(* The values of nlohmann::json: a string, a number (kept as its text),     *)
(* null, an array or an object (a function from its keys).                 *)
JString(s) == [t |-> "string", s |-> s]
JNumber(n) == [t |-> "number", n |-> n]
JNull == [t |-> "null"]
JArray(a) == [t |-> "array", a |-> a]
JObject(o) == [t |-> "object", o |-> o]

(* The exceptions of the library, all derived from json::exception. *)
ParseError == [exception |-> "parse_error"]
TypeError == [exception |-> "type_error"]
JsonExceptions == {ParseError, TypeError}

RECURSIVE SkipSpace(_, _)
SkipSpace(text, i) ==
    IF i <= Len(text) /\ text[i] = " " THEN SkipSpace(text, i + 1) ELSE i

(* The offset of the first double quote at or behind i, 0 if there is none. *)
RECURSIVE FindQuote(_, _)
FindQuote(text, i) ==
    IF i > Len(text) THEN 0 ELSE IF text[i] = "\"" THEN i ELSE FindQuote(text, i + 1)

(* The offset behind the digits that start at i. *)
RECURSIVE DigitsEnd(_, _)
DigitsEnd(text, i) ==
    IF i <= Len(text) /\ text[i] \in Digits THEN DigitsEnd(text, i + 1) ELSE i

NotJson == [ok |-> FALSE]
Parsed(v, next) == [ok |-> TRUE, v |-> v, next |-> next]

(* json::parse on texts made of strings without escapes, unsigned integers, *)
(* null, arrays and objects: the value that starts at start and the offset  *)
(* behind it.  A key given twice keeps its last value.                      *)
RECURSIVE ParseValue(_, _), ParseElements(_, _, _), ParseMembers(_, _, _)
ParseValue(text, start) ==
    LET i == SkipSpace(text, start)
        c == IF i <= Len(text) THEN text[i] ELSE ""
        close == FindQuote(text, i + 1)
        e == IF c = "0" THEN i + 1 ELSE DigitsEnd(text, i)
        j == SkipSpace(text, i + 1)
        d == IF j <= Len(text) THEN text[j] ELSE ""
    IN  CASE c = "\"" ->
                IF close = 0 THEN NotJson
                ELSE Parsed(JString(Spelling(SubSeq(text, i + 1, close - 1))), close + 1)
          [] c \in Digits -> Parsed(JNumber(Spelling(SubSeq(text, i, e - 1))), e)
          [] c = "n" ->
                IF i + 3 <= Len(text) /\ SubSeq(text, i, i + 3) = <<"n", "u", "l", "l">>
                THEN Parsed(JNull, i + 4) ELSE NotJson
          [] c = "[" ->
                IF d = "]" THEN Parsed(JArray(<<>>), j + 1) ELSE ParseElements(text, i + 1, <<>>)
          [] c = "{" ->
                IF d = "}" THEN Parsed(JObject(<<>>), j + 1) ELSE ParseMembers(text, i + 1, <<>>)
          [] OTHER -> NotJson
ParseElements(text, start, a) ==
    LET r == ParseValue(text, start)
        i == SkipSpace(text, r.next)
    IN  IF ~r.ok THEN NotJson
        ELSE IF i > Len(text) THEN NotJson
        ELSE IF text[i] = "," THEN ParseElements(text, i + 1, Append(a, r.v))
        ELSE IF text[i] = "]" THEN Parsed(JArray(Append(a, r.v)), i + 1)
        ELSE NotJson
ParseMembers(text, start, o) ==
    LET k == ParseValue(text, start)
        c == SkipSpace(text, k.next)
        r == ParseValue(text, c + 1)
        i == SkipSpace(text, r.next)
    IN  IF ~k.ok THEN NotJson
        ELSE IF k.v.t # "string" THEN NotJson
        ELSE IF c > Len(text) THEN NotJson
        ELSE IF text[c] # ":" THEN NotJson
        ELSE IF ~r.ok THEN NotJson
        ELSE IF i > Len(text) THEN NotJson
        ELSE IF text[i] = "," THEN ParseMembers(text, i + 1, (k.v.s :> r.v) @@ o)
        ELSE IF text[i] = "}" THEN Parsed(JObject((k.v.s :> r.v) @@ o), i + 1)
        ELSE NotJson

(* json::parse: the value of the whole text, or parse_error. *)
json_parse(text) ==
    LET r == ParseValue(text, 1)
    IN  IF ~r.ok THEN ParseError
        ELSE IF SkipSpace(text, r.next) <= Len(text) THEN ParseError
        ELSE r.v

(* j.contains(key): false for a value that is not an object. *)
contains(j, key) == j.t = "object" /\ key \in DOMAIN j.o

(* get<std::string>() and get<std::vector<std::string>>() throw type_error *)
(* for a value of another type; these say when they do not.               *)
is_string(j) == j.t = "string"
is_string_array(j) == j.t = "array" /\ \A i \in DOMAIN j.a : j.a[i].t = "string"

Nullopt == [type |-> "nullopt"]

(* The catch clause of parse_request: which exceptions it catches. *)
Caught == JsonExceptions

(* The params of an analyze or file_tree request, as the two branches read *)
(* them.                                                                   *)
read_params(j) ==
    LET params == j.o.params
    IN  IF ~contains(j, "params") THEN [root |-> "", extensions |-> <<>>]
        ELSE IF contains(params, "root") /\ ~is_string(params.o.root) THEN TypeError
        ELSE IF contains(params, "extensions") /\ ~is_string_array(params.o.extensions)
             THEN TypeError
        ELSE [root |-> IF contains(params, "root") THEN params.o.root.s ELSE "",
              extensions |-> IF contains(params, "extensions")
                             THEN [i \in DOMAIN params.o.extensions.a |->
                                      params.o.extensions.a[i].s]
                             ELSE <<>>]

(* The try block of parse_request behind json::parse, j being what the    *)
(* parse gave and params what the params of j read as: a request,          *)
(* std::nullopt or the exception that leaves the block.                    *)
RequestOf(j, params) ==
    IF j = ParseError THEN ParseError
    ELSE IF ~(contains(j, "id") /\ contains(j, "method")) THEN Nullopt
    ELSE IF ~is_string(j.o.id) THEN TypeError
    ELSE IF ~is_string(j.o.method) THEN TypeError
    ELSE IF j.o.method.s \in {"analyze", "file_tree"}
         THEN IF params = TypeError THEN TypeError
              ELSE [type |-> j.o.method.s, id |-> j.o.id.s,
                    root |-> params.root, extensions |-> params.extensions]
    ELSE IF j.o.method.s = "shutdown" THEN [type |-> "shutdown", id |-> j.o.id.s]
    ELSE Nullopt
TryBlock(j) == RequestOf(j, read_params(j))

(* The try block of parse_request: a request, std::nullopt or the          *)
(* exception that leaves it.                                               *)
try_parse_request(json_str) == TryBlock(json_parse(json_str))

(* parse_request: what the try block returns, std::nullopt for an          *)
(* exception the catch clause catches; any other exception leaves the      *)
(* function.                                                               *)
CatchClause(r) == IF r \in Caught THEN Nullopt ELSE r
parse_request(json_str) == CatchClause(try_parse_request(json_str))

serialize_error(id, error_message) == [id |-> id, error |-> [message |-> error_message]]

(* What an existing path may be in the file system when a request is       *)
(* handled.                                                                *)
PathKinds == {"directory", "file"}

(* An exception leaves the handler. *)
Raised == [exception |-> "filesystem_error"]

(* handle_request; kind is what the root of the request is in the file     *)
(* system: Scanner::scan returns for a directory, and                      *)
(* recursive_directory_iterator throws for a root that is a regular file.  *)
handle_request(request_json, kind) ==
    LET request == parse_request(request_json)
    IN  IF request = Nullopt THEN serialize_error("", "Invalid request format")
        ELSE IF request.type \in {"analyze", "file_tree"}
             THEN IF request.root # "" /\ kind = "file" THEN Raised
                  ELSE [id |-> request.id, result |-> request.type]
        ELSE [id |-> request.id, result |-> [status |-> "shutdown"]]

(* The offset of the first newline of a text, 0 if it has none. *)
RECURSIVE FindNewline(_, _)
FindNewline(text, i) ==
    IF i > Len(text) THEN 0 ELSE IF text[i] = "\n" THEN i ELSE FindNewline(text, i + 1)

(* The inner loop of handle_client on c = [accumulated, handled, sent,     *)
(* raised]: every complete line is taken off accumulated; for a non-empty  *)
(* one the handler is called and its response sent with a newline.         *)
RECURSIVE ProcessLines(_, _)
ProcessLines(c, kind) ==
    LET pos == FindNewline(c.accumulated, 1)
        message == SubSeq(c.accumulated, 1, pos - 1)
        rest == SubSeq(c.accumulated, pos + 1, Len(c.accumulated))
        response == handle_request(message, kind)
    IN  IF pos = 0 THEN c
        ELSE IF message = <<>> THEN ProcessLines([c EXCEPT !.accumulated = rest], kind)
        ELSE IF response = Raised
             THEN [c EXCEPT !.accumulated = rest, !.handled = Append(@, message),
                            !.raised = TRUE]
        ELSE ProcessLines([c EXCEPT !.accumulated = rest, !.handled = Append(@, message),
                                    !.sent = Append(@, <<response, "\n">>)], kind)

Lines == {ShutdownText, FileTreeText, UnknownMethodText, <<>>}
Streams == {Concat([i \in DOMAIN ls |-> Append(ls[i], "\n")]) :
               ls \in UNION {[1..n -> Lines] : n \in 0..MaxRequests}}

(* run() has been called on a server whose handler is set. *)
InitServer ==
    /\ engine = "null"
    /\ state = CppInitState(<<>>)
    /\ metrics = CppInitMetrics
    /\ tokens = <<>>
    /\ result = NoResult
    /\ pc = "idle"
    /\ calls = 0
    /\ first = NoResult
    /\ peer = NoPeer
    /\ factory = NoFactory
    /\ motor = NoMotor
    /\ server = [run |-> "initialize", stop |-> "idle", running |-> FALSE,
                 server_socket |-> "invalid", conn |-> "none", stream |-> <<>>,
                 closed |-> FALSE, received |-> <<>>, accumulated |-> <<>>,
                 handled |-> <<>>, sent |-> <<>>]

normalizerVars == <<engine, state, metrics, tokens, result, pc, calls, first, peer, factory, motor>>

(* initialize(): the socket is created, bound and put to listen, or run()  *)
(* throws.                                                                 *)
Initialize ==
    /\ server.run = "initialize"
    /\ \/ server' = [server EXCEPT !.server_socket = "listening", !.run = "store"]
       \/ server' = [server EXCEPT !.run = "thrown"]
    /\ UNCHANGED normalizerVars

(* running.store(true) *)
StoreRunning ==
    /\ server.run = "store"
    /\ server' = [server EXCEPT !.running = TRUE, !.run = "loop"]
    /\ UNCHANGED normalizerVars

(* while (running.load()) of run() *)
LoopCheck ==
    /\ server.run = "loop"
    /\ server' = [server EXCEPT !.run = IF server.running THEN "accept" ELSE "returned"]
    /\ UNCHANGED normalizerVars

(* accept(): on a closed descriptor it fails and run() breaks or tries     *)
(* again; on a listening socket it returns when a client has connected;    *)
(* otherwise it blocks.                                                    *)
Accept ==
    /\ server.run = "accept"
    /\ \/ /\ server.server_socket = "invalid"
          /\ server' = [server EXCEPT !.run = IF server.running THEN "loop" ELSE "returned"]
       \/ /\ server.server_socket = "listening" /\ server.conn = "pending"
          /\ server' = [server EXCEPT !.conn = "open", !.run = "client"]
    /\ UNCHANGED normalizerVars

(* while (running.load()) of handle_client; behind the loop the client     *)
(* socket is closed.                                                       *)
ServeCheck ==
    /\ server.run = "client"
    /\ server' = IF server.running THEN [server EXCEPT !.run = "recv"]
                 ELSE [server EXCEPT !.conn = "closed", !.run = "loop"]
    /\ UNCHANGED normalizerVars

(* recv() and the body of the loop of handle_client: recv returns some of  *)
(* the bytes the client sends, or 0 when the client has closed; it blocks  *)
(* while there is neither.                                                 *)
Recv ==
    /\ server.run = "recv"
    /\ \/ \E n \in 1..Len(server.stream) : \E kind \in PathKinds :
             LET bytes == SubSeq(server.stream, 1, n)
                 c == ProcessLines([accumulated |-> server.accumulated \o bytes,
                                    handled |-> server.handled, sent |-> server.sent,
                                    raised |-> FALSE], kind)
             IN  server' = [server EXCEPT
                               !.stream = SubSeq(@, n + 1, Len(@)),
                               !.received = @ \o bytes,
                               !.accumulated = c.accumulated,
                               !.handled = c.handled,
                               !.sent = c.sent,
                               !.run = IF c.raised THEN "thrown" ELSE "client"]
       \/ /\ server.stream = <<>> /\ server.closed
          /\ server' = [server EXCEPT !.conn = "closed", !.run = "loop"]
    /\ UNCHANGED normalizerVars

(* stop() is called by another thread: running.store(false) *)
StopStore ==
    /\ server.stop = "idle"
    /\ server' = [server EXCEPT !.running = FALSE, !.stop = "cleanup"]
    /\ UNCHANGED normalizerVars

(* cleanup() of stop(): the listening socket is closed, its file removed. *)
StopCleanup ==
    /\ server.stop = "cleanup"
    /\ server' = [server EXCEPT !.server_socket = "invalid", !.stop = "returned"]
    /\ UNCHANGED normalizerVars

(* A client connects to the listening socket, with the bytes it is to      *)
(* send.                                                                   *)
ClientConnect(streams) ==
    /\ server.conn = "none" /\ server.server_socket = "listening"
    /\ \E stream \in streams : server' = [server EXCEPT !.conn = "pending", !.stream = stream]
    /\ UNCHANGED normalizerVars

(* The client closes its end; what it had still to send is not sent. *)
ClientClose ==
    /\ server.conn \in {"pending", "open"} /\ ~server.closed
    /\ server' = [server EXCEPT !.closed = TRUE, !.stream = <<>>]
    /\ UNCHANGED normalizerVars

(* One client and no call of stop(). *)
NextServer ==
    Initialize \/ StoreRunning \/ LoopCheck \/ Accept \/ ServeCheck \/ Recv
       \/ ClientConnect(Streams) \/ ClientClose
SpecServer == InitServer /\ [][NextServer]_vars

(* The complete lines of a text, in order, without their newlines. *)
RECURSIVE CompleteLines(_)
CompleteLines(text) ==
    LET pos == FindNewline(text, 1)
    IN  IF pos = 0 THEN <<>>
        ELSE <<SubSeq(text, 1, pos - 1)>> \o CompleteLines(SubSeq(text, pos + 1, Len(text)))

NonEmptyLines(text) == SelectSeq(CompleteLines(text), LAMBDA message : message # <<>>)

(***************************************************************************)
(* C17.  On a client connection the handler is called exactly once, in     *)
(* order, with each non-empty line received, whatever the pieces recv      *)
(* returned; for each call one response follows, ended by a newline and in *)
(* the same order; an empty line gets no response; and when the bytes of a *)
(* recv are processed the connection is open for the next request.         *)
(***************************************************************************)
C17_OneResponsePerMessage ==
    /\ [](server.run # "none" =>
             /\ server.handled = NonEmptyLines(server.received)
             /\ Len(server.sent) = Len(server.handled)
             /\ \A i \in 1..Len(server.sent) :
                   /\ server.sent[i][2] = "\n"
                   /\ \E kind \in PathKinds :
                         server.sent[i][1] = handle_request(server.handled[i], kind))
    /\ [][server.run = "recv" /\ server'.received # server.received
             => server'.run = "client" /\ server'.conn = "open"]_vars

(***************************************************************************)
(* C19.  Once the acknowledgement of a shutdown request has been sent the  *)
(* server processes no later request: the handler is not called again.     *)
(***************************************************************************)
C19_ShutdownStops ==
    server.run # "none" =>
        \A i \in 1..Len(server.handled) :
            (server.handled[i] = ShutdownText /\ i <= Len(server.sent))
                => i = Len(server.handled)

(***************************************************************************)
(* C20.  The response to a request that is a JSON object with a string id  *)
(* carries that id, be it a result, the shutdown acknowledgement or an     *)
(* error.                                                                  *)
(***************************************************************************)
C20_ResponseId ==
    server.run # "none" =>
        \A i \in 1..Len(server.sent) :
            LET j == json_parse(server.handled[i])
            IN  (j # ParseError /\ contains(j, "id") /\ is_string(j.o.id))
                    => server.sent[i][1].id = j.o.id.s

(***************************************************************************)
(* stop() is called from another thread while run() is anywhere between    *)
(* its first statement and its return.  The threads are scheduled fairly   *)
(* and a client that has connected closes its end at some time.            *)
(***************************************************************************)
ShortStreams == {<<>>, <<"x", "\n">>, <<"\n", "x">>}

RunThread == Initialize \/ StoreRunning \/ LoopCheck \/ Accept \/ ServeCheck \/ Recv
StopThread == StopStore \/ StopCleanup
NextStop == RunThread \/ StopThread \/ ClientConnect(ShortStreams) \/ ClientClose
SpecStop ==
    /\ InitServer /\ [][NextStop]_vars
    /\ WF_vars(RunThread) /\ WF_vars(StopThread) /\ WF_vars(ClientClose)

(***************************************************************************)
(* C18.  When stop() has been called, at whatever moment after the call of *)
(* run(), run() eventually ends and is_running() is false from then on.    *)
(***************************************************************************)
C18_StopReturns ==
    (server.stop # "idle") ~> [](server.run \in {"returned", "thrown"} /\ ~server.running)

(***************************************************************************)
(* Request parsing.  The texts handed to parse_request are written from    *)
(* documents: a document is a string, a one-digit number, null, an array   *)
(* of documents or an object, given as the sequence of its members; the    *)
(* text is the document as it is written in JSON, complete, cut short by   *)
(* one character or followed by a stray brace.                             *)
(***************************************************************************)
MaxExtensions == 2

DString(chars) == [t |-> "string", s |-> chars]
DNumber(digit) == [t |-> "number", n |-> digit]
DNull == [t |-> "null"]
DArray(items) == [t |-> "array", a |-> items]
DObject(members) == [t |-> "object", m |-> members]

RECURSIVE Dump(_), DumpAll(_, _)
Dump(d) ==
    CASE d.t = "string" -> <<"\"">> \o d.s \o <<"\"">>
      [] d.t = "number" -> <<d.n>>
      [] d.t = "null" -> <<"n", "u", "l", "l">>
      [] d.t = "array" -> <<"[">> \o DumpAll(d.a, FALSE) \o <<"]">>
      [] d.t = "object" -> <<"{">> \o DumpAll(d.m, TRUE) \o <<"}">>
DumpAll(items, keyed) ==
    IF items = <<>> THEN <<>>
    ELSE (IF keyed THEN <<"\"">> \o items[1][1] \o <<"\"", ":">> \o Dump(items[1][2])
                   ELSE Dump(items[1]))
            \o (IF Len(items) > 1 THEN <<",">> ELSE <<>>)
            \o DumpAll(Tail(items), keyed)

IdKey == <<"i", "d">>
MethodKey == <<"m", "e", "t", "h", "o", "d">>
ParamsKey == <<"p", "a", "r", "a", "m", "s">>
RootKey == <<"r", "o", "o", "t">>
ExtensionsKey == <<"e", "x", "t", "e", "n", "s", "i", "o", "n", "s">>

(* No member or one member with the given key. *)
Optional(key, docs) == {<<>>} \cup {<< <<key, d>> >> : d \in docs}

IdDocs == {DString(<<"1">>), DNumber("5"), DNull}
MethodDocs ==
    {DString(<<"a", "n", "a", "l", "y", "z", "e">>), DString(<<"f", "i", "l", "e", "_", "t", "r", "e", "e">>), DString(<<"s", "h", "u", "t", "d", "o", "w", "n">>), DString(<<"x">>),
     DNumber("5")}
RootDocs == {DString(<<"d">>), DNumber("5")}
ExtensionsDocs ==
    {DString(<<".", "p", "y">>)}
       \cup {DArray(a) : a \in UNION {[1..n -> {DString(<<".", "p", "y">>), DNumber("5")}] :
                                        n \in 0..MaxExtensions}}
ParamsDocs ==
    {DNumber("5"), DArray(<<DString(RootKey)>>)}
       \cup {DObject(r \o e) : r \in Optional(RootKey, RootDocs),
                               e \in Optional(ExtensionsKey, ExtensionsDocs)}
RequestDocs ==
    {DNull, DNumber("5"), DString(<<"1">>), DArray(<<>>)}
       \cup {DObject(i \o m \o p) : i \in Optional(IdKey, IdDocs),
                                    m \in Optional(MethodKey, MethodDocs),
                                    p \in Optional(ParamsKey, ParamsDocs)}

Damages == {"none", "cut", "stray"}
Written(doc, damage) ==
    CASE damage = "none" -> Dump(doc)
      [] damage = "cut" -> SubSeq(Dump(doc), 1, Len(Dump(doc)) - 1)
      [] damage = "stray" -> Dump(doc) \o <<"}">>

(* Nothing has been called yet. *)
InitMotor == InitFactory

(* parse_request is called with a text; it returns or an exception leaves  *)
(* it.                                                                     *)
ParseRequest ==
    /\ motor.call = "none"
    /\ \E doc \in RequestDocs : \E damage \in Damages :
          motor' = [call |-> "parse_request", doc |-> doc, damage |-> damage,
                    input |-> Written(doc, damage),
                    output |-> parse_request(Written(doc, damage))]
    /\ UNCHANGED <<engine, state, metrics, tokens, result, pc, calls, first, peer, factory, server>>

NextParse == ParseRequest
SpecParse == InitMotor /\ [][NextParse]_vars

(* The member of an object document with the given key is a string (with   *)
(* the given characters); the document has no such member.                 *)
HasString(d, key) == \E i \in DOMAIN d.m : d.m[i][1] = key /\ d.m[i][2].t = "string"
HasText(d, key, chars) ==
    \E i \in DOMAIN d.m : d.m[i][1] = key /\ d.m[i][2].t = "string" /\ d.m[i][2].s = chars
Lacks(d, key) == \A i \in DOMAIN d.m : d.m[i][1] # key

(* A params document of the right type: an object whose root, if it has    *)
(* one, is a string and whose extensions, if it has them, are an array of  *)
(* strings.                                                                *)
WellTypedParams(p) ==
    /\ p.t = "object"
    /\ Lacks(p, RootKey) \/ HasString(p, RootKey)
    /\ \A i \in DOMAIN p.m :
          p.m[i][1] = ExtensionsKey
             => /\ p.m[i][2].t = "array"
                /\ \A k \in DOMAIN p.m[i][2].a : p.m[i][2].a[k].t = "string"

(* The text written from doc with damage is a request of the given method: *)
(* a JSON object with a string id, that method and, for the two methods    *)
(* that take params, no params or params of the right type.                *)
IsRequest(doc, damage, method) ==
    /\ damage = "none"
    /\ doc.t = "object"
    /\ HasString(doc, IdKey)
    /\ HasText(doc, MethodKey, method)
    /\ method # <<"s", "h", "u", "t", "d", "o", "w", "n">>
          => \A i \in DOMAIN doc.m : doc.m[i][1] = ParamsKey => WellTypedParams(doc.m[i][2])

(***************************************************************************)
(* C21.  parse_request never throws; it returns an AnalyzeRequest, a       *)
(* FileTreeRequest or a ShutdownRequest exactly when its input is a JSON   *)
(* object with a string id and the method analyze, file_tree or shutdown   *)
(* (with params, if any, of the right type), and no value for every other  *)
(* input.                                                                  *)
(***************************************************************************)
C21_ParseRequest ==
    motor.call = "parse_request" =>
        /\ "exception" \notin DOMAIN motor.output
        /\ (motor.output.type = "analyze") = IsRequest(motor.doc, motor.damage, <<"a", "n", "a", "l", "y", "z", "e">>)
        /\ (motor.output.type = "file_tree") = IsRequest(motor.doc, motor.damage, <<"f", "i", "l", "e", "_", "t", "r", "e", "e">>)
        /\ (motor.output.type = "shutdown") = IsRequest(motor.doc, motor.damage, <<"s", "h", "u", "t", "d", "o", "w", "n">>)
        /\ (motor.output = Nullopt)
              = (\A method \in {<<"a", "n", "a", "l", "y", "z", "e">>, <<"f", "i", "l", "e", "_", "t", "r", "e", "e">>, <<"s", "h", "u", "t", "d", "o", "w", "n">>} :
                    ~IsRequest(motor.doc, motor.damage, method))

(***************************************************************************)
(* File scanning.  A name is a sequence of characters and a path a         *)
(* sequence of names.  A directory tree is the set of its entries below    *)
(* the root, each with its path from the root and its kind: a regular      *)
(* file, a directory, or something else (a FIFO, a socket, a device, a     *)
(* symbolic link to nothing).                                              *)
(***************************************************************************)
MaxLeaves == 2

(* The characters of the names in ascending order of their codes. *)
AsciiOrder == <<"-", ".", "a", "b", "c", "g", "m", "s", "t">>
Code(c) == CHOOSE i \in DOMAIN AsciiOrder : AsciiOrder[i] = c

(* operator< of std::string on names and of std::filesystem::path on paths: *)
(* a path is compared name by name.                                         *)
RECURSIVE NameLess(_, _)
NameLess(a, b) ==
    IF b = <<>> THEN FALSE
    ELSE IF a = <<>> THEN TRUE
    ELSE IF a[1] # b[1] THEN Code(a[1]) < Code(b[1])
    ELSE NameLess(Tail(a), Tail(b))
RECURSIVE PathLess(_, _)
PathLess(p, q) ==
    IF q = <<>> THEN FALSE
    ELSE IF p = <<>> THEN TRUE
    ELSE IF p[1] # q[1] THEN NameLess(p[1], q[1])
    ELSE PathLess(Tail(p), Tail(q))

(* path::extension(): of the last name, what starts at its last dot; empty *)
(* for ".", for "..", without a dot and when the only dot comes first.     *)
RECURSIVE LastDot(_, _)
LastDot(name, i) == IF i = 0 THEN 0 ELSE IF name[i] = "." THEN i ELSE LastDot(name, i - 1)
extension(path) ==
    LET name == path[Len(path)]
        dot == LastDot(name, Len(name))
    IN  IF name \in {<<".">>, <<".", ".">>} THEN <<>>
        ELSE IF dot <= 1 THEN <<>>
        ELSE SubSeq(name, dot, Len(name))

(* Scanner::should_exclude on the names of a path. *)
should_exclude(config, path) ==
    \E i \in DOMAIN path :
        LET name == path[i]
        IN  \/ /\ name # <<>> /\ name[1] = "." /\ name # <<".">>
               /\ \/ name \in config.excluded_dirs
                  \/ Len(name) > 1 /\ name[1] = "."
            \/ name \in config.excluded_dirs

(* Scanner::has_valid_extension *)
has_valid_extension(config, path) == extension(path) \in config.extensions

(* std::sort of the files by path. *)
RECURSIVE InsertByPath(_, _)
InsertByPath(files, info) ==
    IF files = <<>> THEN <<info>>
    ELSE IF PathLess(info.path, files[1].path) THEN <<info>> \o files
    ELSE <<files[1]>> \o InsertByPath(Tail(files), info)
RECURSIVE SortByPath(_)
SortByPath(files) ==
    IF files = <<>> THEN <<>> ELSE InsertByPath(SortByPath(Tail(files)), files[1])

(* The trees: at most MaxLeaves entries chosen among four directories of   *)
(* the root (the root itself, a plain one, a hidden one and one with an    *)
(* excluded name inside the plain one), together with the directories      *)
(* above them.                                                             *)
LeafParents == {<<>>, <<<<"s">>>>, <<<<".", "g">>>>, <<<<"s">>, <<"b">>>>}
LeafNames == {<<"a", ".", "c">>, <<"a", ".", "m">>, <<".", "c">>}
EntryKinds == {"regular", "directory", "other"}
Leaves == {[path |-> Append(parent, name), kind |-> kind] :
              parent \in LeafParents, name \in LeafNames, kind \in EntryKinds}
Above(path) == {[path |-> SubSeq(path, 1, n), kind |-> "directory"] : n \in 1..(Len(path) - 1)}
Trees ==
    {leaves \cup UNION {Above(leaf.path) : leaf \in leaves} :
        leaves \in {ls \in {{f[i] : i \in DOMAIN f} :
                                  f \in UNION {[1..n -> Leaves] : n \in 0..MaxLeaves}} :
                       \A x, y \in ls : x.path = y.path => x = y}}

(* The root of the scan: its path and what is there. *)
Roots ==
    {[path |-> <<<<"t">>>>, kind |-> "directory"], [path |-> <<<<".">>, <<"t">>>>, kind |-> "directory"],
     [path |-> <<<<"b">>, <<"t">>>>, kind |-> "directory"], [path |-> <<<<".", ".">>, <<"t">>>>, kind |-> "directory"],
     [path |-> <<<<"t">>>>, kind |-> "missing"], [path |-> <<<<"t">>>>, kind |-> "regular"]}
Configs == {[extensions |-> {<<".", "c">>}, excluded_dirs |-> {<<".", "g">>, <<"b">>}]}

(* scan() up to its loop: a root that does not exist gives an empty list;  *)
(* the directory iterator throws for a root that is not a directory.       *)
ScanEnter ==
    /\ motor.call = "none"
    /\ \E root \in Roots : \E config \in Configs :
       \E tree \in (IF root.kind = "directory" THEN Trees ELSE {{}}) :
          motor' = [call |-> "scan", root |-> root, config |-> config, tree |-> tree,
                    remaining |-> tree, files |-> <<>>,
                    pc |-> CASE root.kind = "missing" -> "returned"
                             [] root.kind = "directory" -> "iterate"
                             [] OTHER -> "thrown"]
    /\ UNCHANGED <<engine, state, metrics, tokens, result, pc, calls, first, peer, factory, server>>

(* One pass of the loop: the iterator gives an entry, in an order that is  *)
(* not specified but for a directory coming before what it holds;          *)
(* directories, excluded paths and other extensions are passed over;       *)
(* file_size throws for what is not a regular file.                        *)
ScanStep ==
    /\ motor.call = "scan" /\ motor.pc = "iterate"
    /\ \E entry \in motor.remaining :
          LET path == motor.root.path \o entry.path
              info == [path |-> path, size_bytes |-> IF entry.kind = "regular" THEN 1 ELSE 0]
          IN  /\ Above(entry.path) \cap motor.remaining = {}
              /\ motor' = [motor EXCEPT
                              !.remaining = @ \ {entry},
                              !.files = IF \/ entry.kind = "directory"
                                           \/ should_exclude(motor.config, path)
                                           \/ ~has_valid_extension(motor.config, path)
                                        THEN @ ELSE Append(@, info)]
    /\ UNCHANGED <<engine, state, metrics, tokens, result, pc, calls, first, peer, factory, server>>

(* Behind the loop the files are sorted and returned. *)
ScanReturn ==
    /\ motor.call = "scan" /\ motor.pc = "iterate" /\ motor.remaining = {}
    /\ motor' = [motor EXCEPT !.files = SortByPath(@), !.pc = "returned"]
    /\ UNCHANGED <<engine, state, metrics, tokens, result, pc, calls, first, peer, factory, server>>

NextScan == ScanEnter \/ ScanStep \/ ScanReturn
SpecScan == InitMotor /\ [][NextScan]_vars

(* The name of a directory that keeps its files out of the result; "." is  *)
(* the directory itself and no name.                                       *)
Shut(config, name) == name \in config.excluded_dirs \/ (name[1] = "." /\ name # <<".">>)

(***************************************************************************)
(* C22.  What scan returns is sorted ascending by path and holds only      *)
(* regular files whose extension is in the configured set; no returned     *)
(* file lies under a directory whose name is excluded or begins with a     *)
(* dot; for a root that does not exist scan returns an empty list and does *)
(* not throw.                                                              *)
(***************************************************************************)
C22_Scan ==
    motor.call = "scan" =>
        /\ motor.pc = "returned" =>
              /\ \A i, k \in DOMAIN motor.files :
                    i < k => PathLess(motor.files[i].path, motor.files[k].path)
              /\ \A i \in DOMAIN motor.files :
                    LET path == motor.files[i].path
                    IN  /\ \E entry \in motor.tree :
                              /\ motor.root.path \o entry.path = path
                              /\ entry.kind = "regular"
                        /\ extension(path) \in motor.config.extensions
                        /\ \A n \in 1..(Len(path) - 1) : ~Shut(motor.config, path[n])
        /\ motor.root.kind = "missing" => motor.pc = "returned" /\ motor.files = <<>>

(***************************************************************************)
(* Line counting.  A file is a path with what is there: nothing, a         *)
(* directory, or a regular file with its content.                          *)
(***************************************************************************)
MaxLocLines == 3

(* line.find(pattern, from) and line.find_first_not_of(chars), as offsets  *)
(* from 1; 0 is npos.                                                      *)
RECURSIVE Find(_, _, _)
Find(line, pattern, from) ==
    IF from + Len(pattern) - 1 > Len(line) THEN 0
    ELSE IF SubSeq(line, from, from + Len(pattern) - 1) = pattern THEN from
    ELSE Find(line, pattern, from + 1)
RECURSIVE FindFirstNotOf(_, _, _)
FindFirstNotOf(line, chars, from) ==
    IF from > Len(line) THEN 0
    ELSE IF line[from] \notin chars THEN from
    ELSE FindFirstNotOf(line, chars, from + 1)

is_blank_line(line) == FindFirstNotOf(line, {" ", "\t", "\r", "\n"}, 1) = 0

is_comment_line(line) ==
    LET first_char == FindFirstNotOf(line, {" ", "\t"}, 1)
        next == IF first_char + 1 <= Len(line) THEN line[first_char + 1] ELSE ""
    IN  IF first_char = 0 THEN FALSE
        ELSE \/ line[first_char] = "/" /\ next = "/"
             \/ line[first_char] = "#"
             \/ line[first_char] = "/" /\ next = "*"
             \/ line[first_char] = "*"

(* std::getline: the text up to the next newline and what is left behind   *)
(* it; it fails when nothing is left.                                      *)
GetLine(rest) ==
    LET pos == FindNewline(rest, 1)
    IN  IF pos = 0 THEN [line |-> rest, rest |-> <<>>]
        ELSE [line |-> SubSeq(rest, 1, pos - 1), rest |-> SubSeq(rest, pos + 1, Len(rest))]

NewFileMetrics(path) ==
    [path |-> path, total_lines |-> 0, code_lines |-> 0, blank_lines |-> 0,
     comment_lines |-> 0, in_block_comment |-> FALSE]

(* The loop body with the continue of the block comment branch left out:   *)
(* the line is classified once more.                                       *)
LocBodyFallsThrough(m, line) ==
    LET t == [m EXCEPT !.total_lines = @ + 1]
        comment_start == Find(line, <<"/", "*">>, 1)
        comment_end == Find(line, <<"*", "/">>, comment_start + 2)
        first_char == FindFirstNotOf(line, {" ", "\t"}, 1)
        opened == comment_start # 0 /\ comment_end = 0
    IN  IF is_blank_line(line) THEN [t EXCEPT !.blank_lines = @ + 1]
        ELSE IF m.in_block_comment
             THEN IF is_comment_line(line)
                  THEN [t EXCEPT !.comment_lines = @ + 2,
                                 !.in_block_comment = (Find(line, <<"*", "/">>, 1) = 0)]
                  ELSE [t EXCEPT !.comment_lines = @ + 1, !.code_lines = @ + 1,
                                 !.in_block_comment = (Find(line, <<"*", "/">>, 1) = 0)]
        ELSE IF comment_start # 0 /\ first_char = comment_start
             THEN [t EXCEPT !.comment_lines = @ + 1, !.in_block_comment = opened]
        ELSE IF is_comment_line(line)
             THEN [t EXCEPT !.comment_lines = @ + 1, !.in_block_comment = opened]
        ELSE [t EXCEPT !.code_lines = @ + 1, !.in_block_comment = opened]

(* The body of the loop of calculate_file_loc for one line. *)
LocBody(m, line) ==
    LET t == [m EXCEPT !.total_lines = @ + 1]
        comment_start == Find(line, <<"/", "*">>, 1)
        comment_end == Find(line, <<"*", "/">>, comment_start + 2)
        first_char == FindFirstNotOf(line, {" ", "\t"}, 1)
        opened == comment_start # 0 /\ comment_end = 0
    IN  IF is_blank_line(line) THEN [t EXCEPT !.blank_lines = @ + 1]
        ELSE IF m.in_block_comment
             THEN [t EXCEPT !.comment_lines = @ + 1,
                            !.in_block_comment = (Find(line, <<"*", "/">>, 1) = 0)]
        ELSE IF comment_start # 0 /\ first_char = comment_start
             THEN [t EXCEPT !.comment_lines = @ + 1, !.in_block_comment = opened]
        ELSE IF is_comment_line(line)
             THEN [t EXCEPT !.comment_lines = @ + 1, !.in_block_comment = opened]
        ELSE [t EXCEPT !.code_lines = @ + 1, !.in_block_comment = opened]

FileMetrics(m) ==
    [path |-> m.path, total_lines |-> m.total_lines, code_lines |-> m.code_lines,
     blank_lines |-> m.blank_lines, comment_lines |-> m.comment_lines]

(* calculate_file_loc: no value when the file cannot be opened; a          *)
(* directory is opened and the first read from it fails.                   *)
RECURSIVE LocLoop(_, _)
LocLoop(m, rest) ==
    IF rest = <<>> THEN FileMetrics(m)
    ELSE LocLoop(LocBody(m, GetLine(rest).line), GetLine(rest).rest)
calculate_file_loc(file) ==
    IF file.kind = "missing" THEN Nullopt
    ELSE LocLoop(NewFileMetrics(file.path), IF file.kind = "regular" THEN file.content ELSE <<>>)

(* The lines of the contents and the contents: at most MaxLocLines lines,  *)
(* the last one with or without its newline.                               *)
LocLines ==
    {<<>>, <<" ">>, <<"\r">>, <<"x">>, <<"/">>, <<"/", "*">>, <<"*", "/">>, <<"x", "/", "*">>, <<"/", "*", "*", "/", "x">>, <<"/", "/">>, <<"#">>,
     <<"*">>, <<" ", "/", "*">>, <<"/", "/", "/", "*">>, <<"/", "*", "/">>}
Contents ==
    {Concat([i \in DOMAIN ls |-> IF i < Len(ls) \/ last THEN Append(ls[i], "\n") ELSE ls[i]]) :
        ls \in UNION {[1..n -> LocLines] : n \in 0..MaxLocLines}, last \in BOOLEAN}
LocFiles ==
    {[path |-> "a", kind |-> "missing"], [path |-> "a", kind |-> "directory"]}
       \cup {[path |-> "a", kind |-> "regular", content |-> content] : content \in Contents}

(* calculate_file_loc is called: the file is opened, or no value is        *)
(* returned.                                                               *)
LocOpen ==
    /\ motor.call = "none"
    /\ \E file \in LocFiles :
          motor' = IF file.kind = "missing"
                   THEN [call |-> "calculate_file_loc", file |-> file, pc |-> "returned",
                         output |-> Nullopt]
                   ELSE [call |-> "calculate_file_loc", file |-> file, pc |-> "getline",
                         rest |-> IF file.kind = "regular" THEN file.content ELSE <<>>,
                         metrics |-> NewFileMetrics(file.path)]
    /\ UNCHANGED <<engine, state, metrics, tokens, result, pc, calls, first, peer, factory, server>>

(* getline gives a line and the loop body counts it. *)
LocStep ==
    /\ motor.call = "calculate_file_loc" /\ motor.pc = "getline" /\ motor.rest # <<>>
    /\ motor' = [motor EXCEPT !.metrics = LocBody(@, GetLine(motor.rest).line),
                              !.rest = GetLine(motor.rest).rest]
    /\ UNCHANGED <<engine, state, metrics, tokens, result, pc, calls, first, peer, factory, server>>

(* getline fails: the metrics are returned. *)
LocReturn ==
    /\ motor.call = "calculate_file_loc" /\ motor.pc = "getline" /\ motor.rest = <<>>
    /\ motor' = [call |-> "calculate_file_loc", file |-> motor.file, pc |-> "returned",
                 output |-> FileMetrics(motor.metrics)]
    /\ UNCHANGED <<engine, state, metrics, tokens, result, pc, calls, first, peer, factory, server>>

NextLoc == LocOpen \/ LocStep \/ LocReturn
SpecLoc == InitMotor /\ [][NextLoc]_vars

(* The number of lines of a content: its newlines, and one more for what   *)
(* stands behind the last of them.                                         *)
RECURSIVE LineCount(_)
LineCount(content) ==
    IF content = <<>> THEN 0
    ELSE IF FindNewline(content, 1) = 0 THEN 1
    ELSE 1 + LineCount(SubSeq(content, FindNewline(content, 1) + 1, Len(content)))

Counters == {"blank_lines", "comment_lines", "code_lines"}

(***************************************************************************)
(* C24.  calculate_file_loc counts every line it reads in exactly one of   *)
(* blank_lines, comment_lines and code_lines, so that the three add up to  *)
(* total_lines, which is the number of lines of the content; an empty file *)
(* gives zero counts, a file of n empty lines total_lines = blank_lines =  *)
(* n, and a file that cannot be opened no value.                           *)
(***************************************************************************)
C24_FileLoc ==
    /\ [](motor.call = "calculate_file_loc" =>
             /\ motor.pc = "getline" =>
                   motor.metrics.blank_lines + motor.metrics.comment_lines
                      + motor.metrics.code_lines = motor.metrics.total_lines
             /\ motor.pc = "returned" /\ motor.file.kind = "missing" => motor.output = Nullopt
             /\ motor.pc = "returned" /\ motor.file.kind = "regular" =>
                   /\ motor.output # Nullopt
                   /\ motor.output.total_lines = LineCount(motor.file.content)
                   /\ motor.output.blank_lines + motor.output.comment_lines
                         + motor.output.code_lines = motor.output.total_lines
                   /\ (\A i \in DOMAIN motor.file.content : motor.file.content[i] = "\n")
                         => /\ motor.output.total_lines = Len(motor.file.content)
                            /\ motor.output.blank_lines = Len(motor.file.content)
                            /\ motor.output.comment_lines = 0
                            /\ motor.output.code_lines = 0)
    /\ [][motor.call = "calculate_file_loc" /\ motor.pc = "getline" /\ motor'.pc = "getline"
             => /\ motor'.metrics.total_lines = motor.metrics.total_lines + 1
                /\ \E c \in Counters :
                      /\ motor'.metrics[c] = motor.metrics[c] + 1
                      /\ \A d \in Counters \ {c} : motor'.metrics[d] = motor.metrics[d]]_vars

(* A file whose block comment runs over two lines and ends before code has *)
(* been counted and returned.                                              *)
C24_Witness ==
    /\ motor.call = "calculate_file_loc" /\ motor.pc = "returned"
    /\ motor.file.kind = "regular"
    /\ motor.file.content = <<"x", "/", "*">> \o <<"\n">> \o <<"*", "/">> \o <<"\n">> \o <<"x">>
    /\ motor.output.total_lines = 3 /\ motor.output.code_lines = 2
    /\ motor.output.comment_lines = 1

(***************************************************************************)
(* Line counting over a list of paths.                                     *)
(***************************************************************************)
MaxPaths == 3

(* The paths of the lists: one with nothing behind it, a directory, an     *)
(* empty file, a file of one code line and a file with a comment, a code   *)
(* line and a blank line.                                                  *)
ProjectFiles ==
    {[path |-> "m", kind |-> "missing"], [path |-> "d", kind |-> "directory"],
     [path |-> "e", kind |-> "regular", content |-> <<>>],
     [path |-> "a", kind |-> "regular", content |-> <<"x">> \o <<"\n">>],
     [path |-> "b", kind |-> "regular",
      content |-> <<"/", "/">> \o <<"\n">> \o <<"x">> \o <<"\n", "\n">>]}

NewProjectMetrics(paths) ==
    [total_files |-> Len(paths), total_lines |-> 0, total_code_lines |-> 0, files |-> <<>>]

(* The body of the loop of calculate_project_loc for one path. *)
ProjectBody(project, file) ==
    LET file_metrics == calculate_file_loc(file)
    IN  IF file_metrics = Nullopt THEN project
        ELSE [project EXCEPT !.total_lines = @ + file_metrics.total_lines,
                             !.total_code_lines = @ + file_metrics.code_lines,
                             !.files = Append(@, file_metrics)]

(* calculate_project_loc is called with a list of paths. *)
ProjectEnter ==
    /\ motor.call = "none"
    /\ \E paths \in UNION {[1..n -> ProjectFiles] : n \in 0..MaxPaths} :
          motor' = [call |-> "calculate_project_loc", paths |-> paths, next |-> 1,
                    project |-> NewProjectMetrics(paths), pc |-> "loop"]
    /\ UNCHANGED <<engine, state, metrics, tokens, result, pc, calls, first, peer, factory, server>>

(* One pass of the loop. *)
ProjectStep ==
    /\ motor.call = "calculate_project_loc" /\ motor.pc = "loop"
    /\ motor.next <= Len(motor.paths)
    /\ motor' = [motor EXCEPT !.project = ProjectBody(@, motor.paths[motor.next]),
                              !.next = @ + 1]
    /\ UNCHANGED <<engine, state, metrics, tokens, result, pc, calls, first, peer, factory, server>>

ProjectReturn ==
    /\ motor.call = "calculate_project_loc" /\ motor.pc = "loop"
    /\ motor.next > Len(motor.paths)
    /\ motor' = [motor EXCEPT !.pc = "returned"]
    /\ UNCHANGED <<engine, state, metrics, tokens, result, pc, calls, first, peer, factory, server>>

NextProject == ProjectEnter \/ ProjectStep \/ ProjectReturn
SpecProject == InitMotor /\ [][NextProject]_vars

(* A path that can be read: a regular file.  Nothing can be read from a    *)
(* directory or from a path with nothing behind it.                        *)
Readable(file) == file.kind = "regular"

RECURSIVE SumOf(_, _)
SumOf(files, field) ==
    IF files = <<>> THEN 0 ELSE files[1][field] + SumOf(Tail(files), field)

(***************************************************************************)
(* C23.  calculate_project_loc returns total_files equal to the number of  *)
(* paths given, those that cannot be read included; files holds one entry, *)
(* in the order of the input, for exactly the paths that can be read;      *)
(* total_lines and total_code_lines are the sums of total_lines and        *)
(* code_lines over these entries; for an empty list all is zero or empty.  *)
(***************************************************************************)
C23_ProjectLoc ==
    (motor.call = "calculate_project_loc" /\ motor.pc = "returned") =>
        LET readable == SelectSeq(motor.paths, Readable)
            project == motor.project
        IN  /\ project.total_files = Len(motor.paths)
            /\ Len(project.files) = Len(readable)
            /\ \A i \in DOMAIN project.files :
                  /\ i <= Len(readable)
                  /\ project.files[i] = calculate_file_loc(readable[i])
            /\ project.total_lines = SumOf(project.files, "total_lines")
            /\ project.total_code_lines = SumOf(project.files, "code_lines")
            /\ motor.paths = <<>> => project = NewProjectMetrics(<<>>)

(***************************************************************************)
(* Python sources made of whole lines: code at the widths 0, 1, 2 and 8,   *)
(* the last reached by a tab alone and by a tab behind a space; empty      *)
(* lines, lines of blanks and comment-only lines.                          *)
(***************************************************************************)
MaxBlockLines == 3

BlockLines ==
    {<<"a", "\n">>, <<" ", "a", "\n">>, <<" ", " ", "a", "\n">>, <<"\t", "a", "\n">>, <<" ", "\t", "a", "\n">>, <<"\n">>, <<" ", " ", "\n">>, <<" ", " ", "#", "\n">>, <<"#", "\n">>,
     <<" ", " ", "a">>}

InitBlocks == InitWith({}, Inputs(BlockLines, MaxBlockLines))
SpecBlocks == InitBlocks /\ [][NextPy]_vars

(* The cursor stands at the first character of a physical line. *)
AtPhysicalLineStart == state.pos = 0 \/ Source[state.pos] = "\n"

(* The offset of the first character of the physical line that holds the   *)
(* character at offset i, and of the first character at or behind i that   *)
(* is no space and no tab.                                                 *)
RECURSIVE LineStartOf(_, _)
LineStartOf(source, i) ==
    IF i <= 1 THEN 1 ELSE IF source[i - 1] = "\n" THEN i ELSE LineStartOf(source, i - 1)
RECURSIVE FirstNonBlank(_, _)
FirstNonBlank(source, i) ==
    IF i <= Len(source) /\ source[i] \in {" ", "\t"} THEN FirstNonBlank(source, i + 1) ELSE i

(* What the physical line that starts at offset i is. *)
LineKindAt(source, i) ==
    LET k == FirstNonBlank(source, i)
    IN  IF k > Len(source) THEN "blank"
        ELSE IF source[k] = "\n" THEN "blank"
        ELSE IF source[k] = "#" THEN "comment"
        ELSE "code"

(* The width of the blanks from offset i on, w columns being counted       *)
(* before it: a space is one column, a tab goes to the next multiple of 8. *)
RECURSIVE LeadingWidth(_, _, _)
LeadingWidth(source, i, w) ==
    IF i > Len(source) THEN w
    ELSE IF source[i] = " " THEN LeadingWidth(source, i + 1, w + 1)
    ELSE IF source[i] = "\t" THEN LeadingWidth(source, i + 1, ((w \div 8) + 1) * 8)
    ELSE w

(* The tokens an iteration appends, and the INDENT and DEDENT among them. *)
Appended == SubSeq(tokens', Len(tokens) + 1, Len(tokens'))
Structural(toks) == SelectSeq(Kinds(toks), LAMBDA type : type \in {"INDENT", "DEDENT"})
Top(stack) == stack[Len(stack)]

(* The iteration that starts a physical line with code on it. *)
CodeLineStep == PyStep /\ AtPhysicalLineStart /\ LineKindAt(Source, state.pos + 1) = "code"

(***************************************************************************)
(* C25.  At the start of a Python line that is neither blank nor           *)
(* comment-only, with leading width w (a space counts 1, a tab goes to the *)
(* next multiple of 8) and stack top t: for w > t, w is pushed and exactly *)
(* one INDENT emitted; for w = t nothing is emitted and the stack stays;   *)
(* for w < t the entries above w are popped, one DEDENT for each.          *)
(***************************************************************************)
C25_Indentation ==
    [][CodeLineStep =>
          LET w == LeadingWidth(Source, state.pos + 1, 0)
              stack == state.indent_stack
              t == Top(stack)
              after == (state').indent_stack
          IN  /\ Len(tokens') >= Len(tokens) /\ SubSeq(tokens', 1, Len(tokens)) = tokens
              /\ w > t => after = Append(stack, w) /\ Structural(Appended) = <<"INDENT">>
              /\ w = t => after = stack /\ Structural(Appended) = <<>>
              /\ w < t => /\ Len(after) < Len(stack)
                          /\ after = SubSeq(stack, 1, Len(after))
                          /\ Top(after) <= w
                          /\ stack[Len(after) + 1] > w
                          /\ Structural(Appended) = [i \in 1..(Len(stack) - Len(after)) |-> "DEDENT"]]_vars

(* Two blocks are opened, the inner one by a tab behind a space, and both  *)
(* are closed by one line at width 0.                                      *)
C25_Witness ==
    /\ Done
    /\ Source = <<" ", "a", "\n">> \o <<" ", "\t", "a", "\n">> \o <<"a", "\n">>
    /\ Kinds(result.tokens) =
          <<"INDENT", "IDENTIFIER", "NEWLINE", "INDENT", "IDENTIFIER", "NEWLINE",
            "DEDENT", "DEDENT", "IDENTIFIER", "NEWLINE">>
    /\ result.tokens[4].length = 8

(***************************************************************************)
(* C26.  The indentation stack is never empty, has 0 at its bottom and is  *)
(* strictly increasing; a line that dedents to a width w found nowhere in  *)
(* the stack pops the entries above w, one DEDENT each, pushes nothing and *)
(* emits no INDENT, so that the top is then the largest entry below w.     *)
(***************************************************************************)
C26_IndentStack ==
    /\ [](engine = "py" =>
             /\ Len(state.indent_stack) >= 1
             /\ state.indent_stack[1] = 0
             /\ \A i \in 1..(Len(state.indent_stack) - 1) :
                   state.indent_stack[i] < state.indent_stack[i + 1])
    /\ [][CodeLineStep =>
             LET w == LeadingWidth(Source, state.pos + 1, 0)
                 stack == state.indent_stack
                 after == (state').indent_stack
             IN  (w < Top(stack) /\ \A i \in DOMAIN stack : stack[i] # w) =>
                    /\ after = SelectSeq(stack, LAMBDA e : e < w)
                    /\ Top(after) < w
                    /\ Structural(Appended) = [i \in 1..(Len(stack) - Len(after)) |-> "DEDENT"]]_vars

(* Blocks at the widths 1 and 8 are open; a line at width 2 closes the     *)
(* inner one and is taken to stand at width 1.                             *)
C26_Witness ==
    /\ pc = "scan" /\ engine = "py"
    /\ Source = <<" ", "a", "\n">> \o <<"\t", "a", "\n">> \o <<" ", " ", "a">>
    /\ state.pos = Len(Source)
    /\ state.indent_stack = <<0, 1>>
    /\ Kinds(tokens) =
          <<"INDENT", "IDENTIFIER", "NEWLINE", "INDENT", "IDENTIFIER", "NEWLINE",
            "DEDENT", "IDENTIFIER">>

(* The cursor is on a physical line that is blank or comment-only. *)
OnIdleLine == LineKindAt(Source, LineStartOf(Source, state.pos + 1)) \in {"blank", "comment"}

(***************************************************************************)
(* C27.  On a blank line (empty or of spaces and tabs only) and on a       *)
(* comment-only line the Python engine emits no INDENT and no DEDENT and   *)
(* leaves the indentation stack as it is, whatever the width of the line's *)
(* leading blanks.                                                         *)
(***************************************************************************)
C27_IdleLines ==
    [][(PyStep /\ OnIdleLine) =>
          /\ (state').indent_stack = state.indent_stack
          /\ Len(tokens') >= Len(tokens)
          /\ Structural(Appended) = <<>>]_vars

(* A block at width 1 is followed by a line of two blanks and a comment at *)
(* width 2: the block is closed at the end of the input only.              *)
C27_Witness ==
    /\ Done
    /\ Source = <<" ", "a", "\n">> \o <<" ", " ", "\n">> \o <<" ", " ", "#", "\n">>
    /\ Kinds(result.tokens) = <<"INDENT", "IDENTIFIER", "NEWLINE", "DEDENT">>

(***************************************************************************)
(* Python sources with tokens that span lines: a triple-quoted string and  *)
(* a string continued by a backslash before the line break, each opened on *)
(* one line and closed on the next with code behind it.                    *)
(***************************************************************************)
MaxStringLines == 3

StringLines ==
    {<<"a", "\n">>, <<" ", "a", "\n">>, <<"a", " ", "=", " ", "\"", "\"", "\"", "\n">>,
     <<"\"", "\"", "\"", " ", "a", "\n">>, <<" ", " ", "\"", "\"", "\"", " ", "a", "\n">>,
     <<"a", " ", "=", " ", "'", "\\", "\n">>, <<"'", " ", "a", "\n">>,
     <<"\"", "\"", "\"", "\n">>}

InitStrings == InitWith({}, Inputs(StringLines, MaxStringLines))
SpecStrings == InitStrings /\ [][NextPy]_vars

(***************************************************************************)
(* C28.  The Python engine measures indentation and emits INDENT and       *)
(* DEDENT, the trailing ones at the end of the input apart, only with the  *)
(* cursor at the first column of a physical line: behind a token that      *)
(* spans lines the code on the closing line starts no measurement.         *)
(***************************************************************************)
C28_LineStartOnly ==
    [][(PyStep /\ ~AtPhysicalLineStart) =>
          /\ (state').indent_stack = state.indent_stack
          /\ Len(tokens') >= Len(tokens)
          /\ Structural(Appended) = <<>>]_vars

(***************************************************************************)
(* Sources made of operator characters and a digit, for both engines.      *)
(***************************************************************************)
MaxOpFrags == 3

CppOpFragments ==
    {<<">", ">">>, <<">">>, <<"=">>, <<"<">>, <<"-">>, <<"*">>, <<".">>, <<":">>, <<"#">>, <<"1">>}
PyOpFragments ==
    {<<"*">>, <<"/">>, <<"=">>, <<"<">>, <<">">>, <<".">>, <<"-">>, <<"@">>, <<":">>, <<"1">>}

InitOperators == InitWith(Inputs(CppOpFragments, MaxOpFrags), Inputs(PyOpFragments, MaxOpFrags))
SpecOperators == InitOperators /\ [][Next]_vars

(* The operator tables of the two engines, the single characters included. *)
CppFourCharOperators == {">>>="}
CppOperatorTable ==
    CppFourCharOperators \cup CppThreeCharOperators \cup CppTwoCharOperators \cup CppOperatorChars
PyOperatorTable == PyThreeCharOperators \cup PyTwoCharOperators \cup PyOperatorChars

(* The entries of a table that the text at offset pos starts with, and the *)
(* longest of them.                                                        *)
MatchesAt(table, source, pos) ==
    {op \in table : /\ pos + Len(op) <= Len(source)
                    /\ Spelling(SubSeq(source, pos + 1, pos + Len(op))) = op}
LongestAt(table, source, pos) ==
    CHOOSE op \in MatchesAt(table, source, pos) :
       \A other \in MatchesAt(table, source, pos) : Len(other) <= Len(op)

(* The character behind the cursor's. *)
NextChar == IF state.pos + 2 <= Len(Source) THEN Source[state.pos + 2] ELSE NUL

(* The cursor of the C/C++ engine is at an operator character that starts  *)
(* no directive, no comment and no number; likewise for the Python engine. *)
CppAtOperator ==
    /\ CppStep
    /\ Source[state.pos + 1] \in CppOperatorChars
    /\ ~(Source[state.pos + 1] = "#" /\ state.at_line_start)
    /\ ~(Source[state.pos + 1] = "/" /\ NextChar \in {"/", "*"})
    /\ ~(Source[state.pos + 1] = "." /\ is_digit(NextChar))
PyAtOperator ==
    /\ PyStep
    /\ Source[state.pos + 1] \in PyOperatorChars
    /\ ~(Source[state.pos + 1] = "." /\ is_digit(NextChar))

(* The iteration appends, behind the INDENT or DEDENT tokens of a line     *)
(* start, one token with this text, PUNCTUATION if the text is one of      *)
(* ( ) [ ] { } , : ; . and OPERATOR otherwise, and moves the cursor behind *)
(* the text.                                                               *)
EmitsOperator(text) ==
    /\ Len(tokens') > Len(tokens)
    /\ SubSeq(tokens', 1, Len(tokens)) = tokens
    /\ Len(Structural(Appended)) = Len(Appended) - 1
    /\ LET tok == tokens'[Len(tokens')]
       IN  /\ tok.original_hash = hash_string(text)
           /\ tok.length = Len(text)
           /\ tok.type = IF text \in {"(", ")", "[", "]", "{", "}", ",", ":", ";", "."}
                         THEN "PUNCTUATION" ELSE "OPERATOR"
    /\ (state').pos = state.pos + Len(text)

(***************************************************************************)
(* C29.  At an operator character an engine emits one token whose text is  *)
(* the longest entry of its operator tables that matches at the cursor     *)
(* (C/C++: four, three, two characters, else one; Python: three, two, else *)
(* one); the token is PUNCTUATION exactly when its text is one of          *)
(* ( ) [ ] { } , : ; . and OPERATOR otherwise.                             *)
(***************************************************************************)
C29_LongestOperator ==
    [][/\ CppAtOperator => EmitsOperator(LongestAt(CppOperatorTable, Source, state.pos))
       /\ PyAtOperator => EmitsOperator(LongestAt(PyOperatorTable, Source, state.pos))]_vars

(* The C/C++ engine has read >>>= as one operator of four characters. *)
C29_Witness ==
    /\ Done /\ engine = "cpp"
    /\ Source = <<">", ">", ">", "=">>
    /\ Len(result.tokens) = 1
    /\ result.tokens[1].type = "OPERATOR"
    /\ result.tokens[1].length = 4
    /\ result.tokens[1].original_hash = hash_string(">>>=")

(***************************************************************************)
(* Sources made of digits, a base prefix, the decimal point, the exponent  *)
(* marker, the engine's digit separator and, for C/C++, a type suffix.     *)
(***************************************************************************)
MaxNumFrags == 4

CppNumFragments == {<<"0">>, <<"1">>, <<"0", "x">>, <<".">>, <<"e">>, <<"'">>, <<"u">>}
PyNumFragments == {<<"0">>, <<"1">>, <<"0", "x">>, <<".">>, <<"e">>, <<"_">>}

InitNumbers == InitWith(Inputs(CppNumFragments, MaxNumFrags), Inputs(PyNumFragments, MaxNumFrags))
SpecNumbers == InitNumbers /\ [][Next]_vars

(* The digit separator of an engine's language and the letters of a C/C++  *)
(* type suffix.                                                            *)
SeparatorOf(e) == IF e = "cpp" THEN "'" ELSE "_"
SuffixLetters == {"u", "U", "l", "L", "f", "F"}

(* The offset behind the digits that start at offset i, single separators  *)
(* between two digits included; i itself if no digit stands there.         *)
RECURSIVE DigitsWithSeparatorsEnd(_, _, _, _)
DigitsWithSeparatorsEnd(src, i, digits, sep) ==
    IF i > Len(src) \/ src[i] \notin digits THEN i
    ELSE IF i + 2 <= Len(src) /\ src[i + 1] = sep /\ src[i + 2] \in digits
         THEN DigitsWithSeparatorsEnd(src, i + 2, digits, sep)
    ELSE IF i + 1 <= Len(src) /\ src[i + 1] \in digits
         THEN DigitsWithSeparatorsEnd(src, i + 1, digits, sep)
    ELSE i + 1

(* The offset behind the value of the literal that src starts with: a base *)
(* prefix with its digits, or decimal digits with an optional fraction and *)
(* an optional exponent; 0 if src starts with no literal.                  *)
LiteralValueEnd(e, src) ==
    LET sep == SeparatorOf(e)
        At(i) == IF i <= Len(src) THEN src[i] ELSE NUL
        Based(digits) == LET j == DigitsWithSeparatorsEnd(src, 3, digits, sep)
                         IN  IF j = 3 THEN 0 ELSE j
        int == DigitsWithSeparatorsEnd(src, 1, Digits, sep)
        frac == IF At(int) = "." /\ DigitsWithSeparatorsEnd(src, int + 1, Digits, sep) > int + 1
                THEN DigitsWithSeparatorsEnd(src, int + 1, Digits, sep)
                ELSE int
        mantissa == IF At(frac + 1) \in {"+", "-"} THEN frac + 2 ELSE frac + 1
        exp == IF At(frac) \in {"e", "E"}
                  /\ DigitsWithSeparatorsEnd(src, mantissa, Digits, sep) > mantissa
               THEN DigitsWithSeparatorsEnd(src, mantissa, Digits, sep)
               ELSE frac
    IN  IF At(1) = "0" /\ At(2) \in {"x", "X"} THEN Based(HexDigits)
        ELSE IF At(1) = "0" /\ At(2) \in {"b", "B"} THEN Based(BinaryDigits)
        ELSE IF e = "py" /\ At(1) = "0" /\ At(2) \in {"o", "O"} THEN Based(OctalDigits)
        ELSE IF int = 1 THEN 0
        ELSE exp

(* src is one numeric literal: a value and, in C/C++, a run of suffix      *)
(* letters behind it.                                                      *)
IsLiteral(e, src) ==
    /\ LiteralValueEnd(e, src) > 0
    /\ \A i \in LiteralValueEnd(e, src)..Len(src) : e = "cpp" /\ src[i] \in SuffixLetters

(* The literal without its separators and without its suffix. *)
PlainLiteral(e, src) ==
    SelectSeq(SubSeq(src, 1, LiteralValueEnd(e, src) - 1), LAMBDA c : c # SeparatorOf(e))

(***************************************************************************)
(* C30.  A numeric literal with digit separators (' in C/C++, _ in Python) *)
(* or, in C/C++, with a type suffix (a run of u U l L f F) and the same    *)
(* literal without them are each emitted as one NUMBER_LITERAL, with equal *)
(* original_hash; the length of each token counts the separators and the   *)
(* suffix letters it consumed.                                             *)
(***************************************************************************)
C30_SeparatorsAndSuffix ==
    (Done /\ IsLiteral(engine, Source)) =>
        LET plain == normalize(engine, PlainLiteral(engine, Source)).tokens
        IN  /\ Len(result.tokens) = 1 /\ Len(plain) = 1
            /\ result.tokens[1].type = "NUMBER_LITERAL"
            /\ plain[1].type = "NUMBER_LITERAL"
            /\ result.tokens[1].original_hash = plain[1].original_hash
            /\ result.tokens[1].length = Len(Source)
            /\ plain[1].length = Len(PlainLiteral(engine, Source))

(***************************************************************************)
(* Sources made of the digits 0, 1 and 8, the decimal point and the        *)
(* exponent marker, for both engines.                                      *)
(***************************************************************************)
MaxZeroFrags == 4

ZeroFragments == {<<"0">>, <<"1">>, <<"8">>, <<".">>, <<"e">>}

InitZero == InitWith(Inputs(ZeroFragments, MaxZeroFrags), Inputs(ZeroFragments, MaxZeroFrags))
SpecZero == InitZero /\ [][Next]_vars

(* src is a literal that starts with a bare 0 with a digit behind it. *)
BareLeadingZero(e, src) ==
    /\ Len(src) >= 2 /\ src[1] = "0" /\ src[2] \in Digits
    /\ IsLiteral(e, src)

(***************************************************************************)
(* C31.  A numeric literal that starts with a bare 0 (no x, b or o behind  *)
(* it) is emitted as one NUMBER_LITERAL that covers the zero and the       *)
(* decimal digits, the fraction and the exponent behind it: 09, 00, 0123   *)
(* and 08.5 are not split into several tokens.                             *)
(***************************************************************************)
C31_BareLeadingZero ==
    (Done /\ BareLeadingZero(engine, Source)) =>
        /\ Len(result.tokens) = 1
        /\ result.tokens[1].type = "NUMBER_LITERAL"
        /\ result.tokens[1].length = Len(Source)

(***************************************************************************)
(* Sources made of the two quotes, the backslash and two letters, for both *)
(* engines: string and character literals with and without escapes.        *)
(***************************************************************************)
MaxEscFrags == 5

EscFragments == {<<"\"">>, <<"'">>, <<"\\">>, <<"a">>, <<"n">>}

InitEscapes == InitWith(Inputs(EscFragments, MaxEscFrags), Inputs(EscFragments, MaxEscFrags))
SpecEscapes == InitEscapes /\ [][Next]_vars

(* The characters of src from i on are the rest of a literal that the      *)
(* quote src[1] opened: escapes of two characters and plain characters,    *)
(* closed by the same quote as the last character of src.                  *)
RECURSIVE ClosesAtEnd(_, _)
ClosesAtEnd(src, i) ==
    IF i > Len(src) THEN FALSE
    ELSE IF src[i] = src[1] THEN i = Len(src)
    ELSE IF src[i] = "\\" THEN ClosesAtEnd(src, i + 2)
    ELSE ClosesAtEnd(src, i + 1)

(* src is one string or character literal without prefix. *)
QuotedLiteral(src) ==
    /\ Len(src) >= 2
    /\ src[1] \in {"\"", "'"}
    /\ ClosesAtEnd(src, 2)

(* The characters between the delimiters of the quoted literal src. *)
Between(src) == SubSeq(src, 2, Len(src) - 1)

(***************************************************************************)
(* C32.  The original_hash of a string or character literal is the content *)
(* hash of the characters between its delimiters, every escape sequence    *)
(* contributing its two raw characters: "a\n", "a\t" and "a" have          *)
(* different hashed contents, in both engines.                             *)
(***************************************************************************)
C32_RawEscapes ==
    (Done /\ QuotedLiteral(Source)) =>
        /\ Len(result.tokens) = 1
        /\ result.tokens[1].type = "STRING_LITERAL"
        /\ result.tokens[1].length = Len(Source)
        /\ result.tokens[1].original_hash = hash_string(Spelling(Between(Source)))

(***************************************************************************)
(* Python sources made of prefix letters, quotes and one other letter:     *)
(* prefixed string literals, single-quoted and triple-quoted.              *)
(***************************************************************************)
MaxPrefixFrags == 5

PrefixFragments == {<<"r">>, <<"b">>, <<"F">>, <<"\"">>, <<"\"", "\"", "\"">>, <<"'">>, <<"a">>}

InitPrefix == InitWith({}, Inputs(PrefixFragments, MaxPrefixFrags))
SpecPrefix == InitPrefix /\ [][NextPy]_vars

PrefixLetters == {"f", "F", "r", "R", "b", "B"}

(* The quote at offset i is repeated three times. *)
TripleAt(src, i) ==
    /\ i + 2 <= Len(src)
    /\ src[i + 1] = src[i]
    /\ src[i + 2] = src[i]

(* From i on, src is the rest of a triple-quoted literal of quote q whose  *)
(* first closing run of three quotes ends the source.                      *)
RECURSIVE TripleClosesAtEnd(_, _, _)
TripleClosesAtEnd(src, q, i) ==
    IF i + 2 > Len(src) THEN FALSE
    ELSE IF src[i] = q /\ TripleAt(src, i) THEN i + 2 = Len(src)
    ELSE IF src[i] = "\\" THEN TripleClosesAtEnd(src, q, i + 2)
    ELSE TripleClosesAtEnd(src, q, i + 1)

(* From i on, src is the rest of a single-quoted literal of quote q that   *)
(* closes with the last character of the source.                           *)
RECURSIVE SingleClosesAtEnd(_, _, _)
SingleClosesAtEnd(src, q, i) ==
    IF i > Len(src) THEN FALSE
    ELSE IF src[i] = q THEN i = Len(src)
    ELSE IF src[i] = "\\" THEN SingleClosesAtEnd(src, q, i + 2)
    ELSE SingleClosesAtEnd(src, q, i + 1)

(* src is one string literal behind a prefix of k letters. *)
PrefixedLiteral(src, k) ==
    /\ Len(src) > k + 1
    /\ \A i \in 1..k : src[i] \in PrefixLetters
    /\ src[k + 1] \in {"\"", "'"}
    /\ IF TripleAt(src, k + 1)
       THEN TripleClosesAtEnd(src, src[k + 1], k + 4)
       ELSE SingleClosesAtEnd(src, src[k + 1], k + 2)

(* The result is one STRING_LITERAL that ends with the source. *)
OneStringToken ==
    /\ Kinds(result.tokens) = <<"STRING_LITERAL">>
    /\ result.tokens[1].column + result.tokens[1].length = Len(Source) + 1

(***************************************************************************)
(* C33.  A Python string literal with a prefix of one or two letters from  *)
(* f, r and b, in any case, is one STRING_LITERAL with no IDENTIFIER for   *)
(* the prefix; three equal quotes open a triple-quoted literal that ends   *)
(* at the same quote repeated three times.                                 *)
(***************************************************************************)
C33_StringPrefix ==
    (Done /\ \E k \in 1..2 : PrefixedLiteral(Source, k)) => OneStringToken

(***************************************************************************)
(* Sources made of a word, the newline and the comment markers of each     *)
(* engine (and the blank, for C/C++): code, comments that end with their   *)
(* line, comments that span lines (the block comment of C/C++, the         *)
(* docstring of Python).                                                   *)
(***************************************************************************)
MaxClassFrags == 5

CppClassFragments == {<<"x">>, <<" ">>, <<"\n">>, <<"/", "/">>, <<"/", "*">>, <<"*", "/">>}
PyClassFragments == {<<"a">>, <<"\n">>, <<"#">>, <<"\"", "\"", "\"">>}

InitClass == InitWith(Inputs(CppClassFragments, MaxClassFrags), Inputs(PyClassFragments, MaxClassFrags))
SpecClass == InitClass /\ [][Next]_vars

(* The text at offset i of src (counted from 1) is the marker. *)
MarkerAt(src, i, marker) ==
    /\ i + Len(marker) - 1 <= Len(src)
    /\ SubSeq(src, i, i + Len(marker) - 1) = marker

LineCommentMarker(e) == IF e = "cpp" THEN <<"/", "/">> ELSE <<"#">>
BlockOpenMarker(e) == IF e = "cpp" THEN <<"/", "*">> ELSE <<"\"", "\"", "\"">>
BlockCloseMarker(e) == IF e = "cpp" THEN <<"*", "/">> ELSE <<"\"", "\"", "\"">>

NoBuckets == [code |-> 0, comment |-> 0, blank |-> 0, open |-> FALSE]

(* One more line in the bucket of highest priority that it belongs to. *)
Bucket(acc, hasCode, hasComment) ==
    IF hasCode THEN [acc EXCEPT !.code = @ + 1]
    ELSE IF hasComment THEN [acc EXCEPT !.comment = @ + 1]
    ELSE [acc EXCEPT !.blank = @ + 1]

(***************************************************************************)
(* The buckets of the physical lines of src, read off the text: a line is  *)
(* code if a character of it outside every comment is no blank, else       *)
(* comment if a character of a comment lies on it or a block comment is    *)
(* open across it, else blank.  seen says that code came before; the       *)
(* Python marker """ behind code is an ordinary string, which this reading *)
(* leaves open (field open).                                               *)
(***************************************************************************)
RECURSIVE BucketsFrom(_, _, _, _, _, _, _, _)
BucketsFrom(e, src, i, mode, hasCode, hasComment, seen, acc) ==
    IF i > Len(src)
    THEN IF Len(src) > 0 /\ src[Len(src)] # "\n" THEN Bucket(acc, hasCode, hasComment) ELSE acc
    ELSE IF src[i] = "\n"
    THEN BucketsFrom(e, src, i + 1, IF mode = "line" THEN "code" ELSE mode,
                     FALSE, mode = "block", seen, Bucket(acc, hasCode, hasComment))
    ELSE IF mode = "line"
    THEN BucketsFrom(e, src, i + 1, mode, hasCode, hasComment, seen, acc)
    ELSE IF mode = "block"
    THEN IF MarkerAt(src, i, BlockCloseMarker(e))
         THEN BucketsFrom(e, src, i + Len(BlockCloseMarker(e)), "code", hasCode, TRUE, seen, acc)
         ELSE BucketsFrom(e, src, i + 1, mode, hasCode, TRUE, seen, acc)
    ELSE IF src[i] = " "
    THEN BucketsFrom(e, src, i + 1, mode, hasCode, hasComment, seen, acc)
    ELSE IF MarkerAt(src, i, LineCommentMarker(e))
    THEN BucketsFrom(e, src, i + 1, "line", hasCode, TRUE, seen, acc)
    ELSE IF MarkerAt(src, i, BlockOpenMarker(e))
    THEN IF e = "py" /\ seen
         THEN [acc EXCEPT !.open = TRUE]
         ELSE BucketsFrom(e, src, i + Len(BlockOpenMarker(e)), "block", hasCode, TRUE, seen, acc)
    ELSE BucketsFrom(e, src, i + 1, mode, TRUE, hasComment, TRUE, acc)

LineBuckets(e, src) == BucketsFrom(e, src, 1, "code", FALSE, FALSE, FALSE, NoBuckets)

(* The counters of the result are the buckets b, where b is settled. *)
CountersAre(b) ==
    b.open \/ /\ result.code_lines = b.code
              /\ result.comment_lines = b.comment
              /\ result.blank_lines = b.blank

(* A newline of src lies inside a block comment or a docstring. *)
RECURSIVE SpansLines(_, _, _, _)
SpansLines(e, src, i, mode) ==
    IF i > Len(src) THEN FALSE
    ELSE IF mode = "block"
    THEN \/ src[i] = "\n"
         \/ IF MarkerAt(src, i, BlockCloseMarker(e))
            THEN SpansLines(e, src, i + Len(BlockCloseMarker(e)), "code")
            ELSE SpansLines(e, src, i + 1, mode)
    ELSE IF mode = "line"
    THEN SpansLines(e, src, i + 1, IF src[i] = "\n" THEN "code" ELSE mode)
    ELSE IF MarkerAt(src, i, LineCommentMarker(e))
    THEN SpansLines(e, src, i + 1, "line")
    ELSE IF MarkerAt(src, i, BlockOpenMarker(e))
    THEN SpansLines(e, src, i + Len(BlockOpenMarker(e)), "block")
    ELSE SpansLines(e, src, i + 1, mode)

(***************************************************************************)
(* C34.  Every physical line is counted in one bucket, with priority code, *)
(* then comment, then blank: a line with a token is code also when it      *)
(* holds a comment; a line without one is a comment line if any part of a  *)
(* comment or of an elided docstring lies on it, the inner and the closing *)
(* lines of a block comment included; every other line is blank.           *)
(***************************************************************************)
C34_LineBuckets == Done => CountersAre(LineBuckets(engine, Source))

(***************************************************************************)
(* Short sources of words, blanks and newlines for both engines, and for   *)
(* the Python engine one source whose last line, behind an empty line, has *)
(* as many blanks as move the 16-bit column counter once around, back to   *)
(* 1.                                                                      *)
(***************************************************************************)
MaxLongFrags == 4

LongFragments == {<<"a">>, <<" ">>, <<"\n">>}

LongLastLine == <<"\n">> \o [i \in 1..UInt16Range |-> " "]

InitLong ==
    InitWith(Inputs(LongFragments, MaxLongFrags),
             Inputs(LongFragments, MaxLongFrags) \cup {LongLastLine})
SpecLong == InitLong /\ [][Next]_vars

(* The number of newlines of src. *)
NewlinesIn(src) == Cardinality({i \in DOMAIN src : src[i] = "\n"})

(* The number of physical lines of src. *)
PhysicalLines(src) ==
    IF Len(src) = 0 THEN 0
    ELSE IF src[Len(src)] = "\n" THEN NewlinesIn(src)
    ELSE NewlinesIn(src) + 1

(***************************************************************************)
(* C35.  total_lines is the number of physical lines of the input: 0 for   *)
(* the empty input, the number of newlines if the input ends with one and  *)
(* one more otherwise, whatever the length of the lines, a last line long  *)
(* enough for the 16-bit column counter to wrap included.                  *)
(***************************************************************************)
C35_TotalLines == Done => result.total_lines = PhysicalLines(Source)

(* Token s stands at or before token t: by line, then by column. *)
NotBehind(s, t) == s.line < t.line \/ (s.line = t.line /\ s.column <= t.column)

(* The positions of the tokens never go back. *)
PositionsAscend(toks) == \A i \in 1..(Len(toks) - 1) : NotBehind(toks[i], toks[i + 1])

(* INDENT and DEDENT stand at the first column of their line. *)
StructuralAtFirstColumn(toks) ==
    \A i \in 1..Len(toks) : toks[i].type \in {"INDENT", "DEDENT"} => toks[i].column = 1

(***************************************************************************)
(* C36.  The tokens of a result are in source order: their positions       *)
(* (line, column) never decrease from one token to the next, in both       *)
(* engines, with INDENT and DEDENT at column 1 of the line that caused     *)
(* them.                                                                   *)
(***************************************************************************)
C36_SourceOrder ==
    Done => PositionsAscend(result.tokens) /\ StructuralAtFirstColumn(result.tokens)

(* The paths that scan returned. *)
ReturnedPaths == {motor.files[i].path : i \in DOMAIN motor.files}

(* An entry of the tree that the rules keep: a regular file with a          *)
(* configured extension and, below the root, no name that is excluded or    *)
(* begins with a dot.                                                       *)
KeptBelowRoot(config, entry) ==
    /\ entry.kind = "regular"
    /\ extension(entry.path) \in config.extensions
    /\ \A n \in DOMAIN entry.path : ~Shut(config, entry.path[n])

(***************************************************************************)
(* C37.  The exclusion rules of the scanner apply to the names below the   *)
(* root only: when the path of the root itself has a name that is excluded *)
(* or begins with a dot (a root inside b, the root ../t), scan still       *)
(* returns the files below it that the rules keep.                         *)
(***************************************************************************)
C37_RootNotExcluded ==
    (motor.call = "scan" /\ motor.pc = "returned") =>
        \A entry \in motor.tree :
            KeptBelowRoot(motor.config, entry) => motor.root.path \o entry.path \in ReturnedPaths

(***************************************************************************)
(* The lifetime of SocketServer objects.  Two objects a and b; impl_ of an *)
(* object is one of the two Impl objects i1, i2 or null; a is constructed  *)
(* at the start, b is constructed or move-constructed from a later.  An    *)
(* Impl has its listening socket (0 is INVALID_SOCKET_VALUE, otherwise the *)
(* number of the descriptor), running, and the count of CLOSE_SOCKET calls *)
(* per descriptor.  run() is modelled up to the return of initialize().    *)
(* An access through a null impl_ is undefined: the process ends with a    *)
(* fault, or goes on as if the access had no effect.                       *)
(***************************************************************************)
MaxRuns == 2

Objects == {"a", "b"}
Impls == {"i1", "i2"}

NewImpl == [alive |-> TRUE, server_socket |-> 0, running |-> FALSE, opened |-> 0,
            closes |-> [d \in 1..MaxRuns |-> 0]]
NoImpl == [alive |-> FALSE, server_socket |-> 0, running |-> FALSE, opened |-> 0,
           closes |-> [d \in 1..MaxRuns |-> 0]]

InitLifetime ==
    /\ engine = "null"
    /\ state = CppInitState(<<>>)
    /\ metrics = CppInitMetrics
    /\ tokens = <<>>
    /\ result = NoResult
    /\ pc = "idle"
    /\ calls = 0
    /\ first = NoResult
    /\ peer = NoPeer
    /\ factory = NoFactory
    /\ motor = NoMotor
    /\ server = [run |-> "lifetime",
                 impl_ |-> [a |-> "i1", b |-> "unborn"],
                 impls |-> [i1 |-> NewImpl, i2 |-> NoImpl],
                 fault |-> "none", ended |-> FALSE]

(* The object is alive: constructed and not destroyed. *)
Live(o) == server.impl_[o] \in Impls \cup {"null"}

(* Impl::cleanup *)
cleanup(impl) ==
    IF impl.server_socket # 0
    THEN [impl EXCEPT !.closes[impl.server_socket] = @ + 1, !.server_socket = 0]
    ELSE impl

(* ~Impl *)
DestroyImpl(impl) == [cleanup(impl) EXCEPT !.alive = FALSE]

(* SocketServer::stop on an Impl *)
stop(impl) == cleanup([impl EXCEPT !.running = FALSE])

(* Impl::initialize where it succeeds, and running.store(true) behind it:  *)
(* server_socket is a new descriptor.                                      *)
initialize(impl) ==
    [impl EXCEPT !.opened = impl.opened + 1, !.server_socket = impl.opened + 1,
                 !.running = TRUE]

(* A member function dereferences the null impl_ of object o. *)
NullAccess(o, by) ==
    /\ server.impl_[o] = "null"
    /\ \E goesOn \in BOOLEAN :
          server' = [server EXCEPT !.fault = by, !.ended = ~goesOn,
                                   !.impl_[o] = IF by = "destroy" /\ goesOn THEN "destroyed" ELSE @]

(* SocketServer b(path) *)
Construct ==
    /\ ~server.ended /\ server.impl_["b"] = "unborn"
    /\ server' = [server EXCEPT !.impl_["b"] = "i2", !.impls["i2"] = NewImpl]
    /\ UNCHANGED normalizerVars

(* SocketServer b(std::move(a)) *)
MoveConstruct ==
    /\ ~server.ended /\ server.impl_["b"] = "unborn" /\ Live("a")
    /\ server' = [server EXCEPT !.impl_["b"] = server.impl_["a"], !.impl_["a"] = "null"]
    /\ UNCHANGED normalizerVars

(* dst = std::move(src): the Impl that dst held is destroyed. *)
MoveAssign ==
    /\ ~server.ended
    /\ \E dst, src \in Objects :
          /\ dst # src /\ Live(dst) /\ Live(src)
          /\ LET old == server.impl_[dst]
                 released == IF old \in Impls
                             THEN [server.impls EXCEPT ![old] = DestroyImpl(@)]
                             ELSE server.impls
             IN  server' = [server EXCEPT !.impls = released,
                                          !.impl_[dst] = server.impl_[src],
                                          !.impl_[src] = "null"]
    /\ UNCHANGED normalizerVars

(* run() up to the return of initialize(): a new socket listens. *)
RunInitialize ==
    /\ ~server.ended
    /\ \E o \in Objects :
          /\ Live(o)
          /\ \/ NullAccess(o, "run")
             \/ /\ server.impl_[o] \in Impls
                /\ server.impls[server.impl_[o]].opened < MaxRuns
                /\ server' = [server EXCEPT !.impls[server.impl_[o]] = initialize(@)]
    /\ UNCHANGED normalizerVars

(* SocketServer::stop *)
Stop ==
    /\ ~server.ended
    /\ \E o \in Objects :
          /\ Live(o)
          /\ \/ NullAccess(o, "stop")
             \/ /\ server.impl_[o] \in Impls
                /\ server' = [server EXCEPT !.impls[server.impl_[o]] = stop(@)]
    /\ UNCHANGED normalizerVars

(* ~SocketServer: stop(), then the unique_ptr destroys the Impl. *)
Destroy ==
    /\ ~server.ended
    /\ \E o \in Objects :
          /\ Live(o)
          /\ \/ NullAccess(o, "destroy")
             \/ /\ server.impl_[o] \in Impls
                /\ server' = [server EXCEPT
                                 !.impls[server.impl_[o]] = DestroyImpl(stop(@)),
                                 !.impl_[o] = "destroyed"]
    /\ UNCHANGED normalizerVars

NextLifetime == Construct \/ MoveConstruct \/ MoveAssign \/ RunInitialize \/ Stop \/ Destroy
SpecLifetime == InitLifetime /\ [][NextLifetime]_vars

(* No descriptor has been closed more than once. *)
ClosedAtMostOnce ==
    \A i \in Impls : \A d \in 1..MaxRuns : server.impls[i].closes[d] <= 1

(***************************************************************************)
(* C38.  SocketServer is movable: the destruction of a moved-from object   *)
(* is safe and makes no access through its impl_; and stop() called twice, *)
(* or the destruction of a stopped server, closes the listening socket at  *)
(* most once.                                                              *)
(***************************************************************************)
C38_MovedFromAndStop == server.fault # "destroy" /\ ClosedAtMostOnce

(***************************************************************************)
(* C39.  Every request that reaches the handler is answered and the server *)
(* goes on serving, also when the processing of the request fails (the     *)
(* root of an analyze or file_tree request exists but cannot be            *)
(* traversed): run() is never ended by a failure inside the handler, and   *)
(* no request is left without a response.                                  *)
(***************************************************************************)
C39_FailureIsAnswered ==
    server.run # "none" =>
        /\ server.run = "thrown" => server.handled = <<>>
        /\ Len(server.handled) = Len(server.sent)

(***************************************************************************)
(* Python sources made of whole lines, each with the line ending \n and    *)
(* with the line ending \r\n.                                              *)
(***************************************************************************)
MaxCrlfLines == 3

UnixLines == {<<"a", "\n">>, <<" ", "a", "\n">>, <<"\n">>, <<"#", "\n">>}

(* The text with every \n replaced by \r\n. *)
RECURSIVE WithCarriageReturns(_)
WithCarriageReturns(src) ==
    IF src = <<>> THEN <<>>
    ELSE (IF Head(src) = "\n" THEN <<"\r", "\n">> ELSE <<Head(src)>>)
             \o WithCarriageReturns(Tail(src))

InitCrlf ==
    InitWith({}, Inputs(UnixLines, MaxCrlfLines)
                    \cup {WithCarriageReturns(src) : src \in Inputs(UnixLines, MaxCrlfLines)})
SpecCrlf == InitCrlf /\ [][NextPy]_vars

(* The result has the token kinds and the line counters of r. *)
SameKindsAndCounters(r) ==
    /\ Kinds(result.tokens) = Kinds(r.tokens)
    /\ result.total_lines = r.total_lines
    /\ result.code_lines = r.code_lines
    /\ result.blank_lines = r.blank_lines
    /\ result.comment_lines = r.comment_lines

(***************************************************************************)
(* C40.  In the Python engine the replacement of every \n of a source by   *)
(* \r\n changes neither the sequence of token kinds nor the line counters: *)
(* \r is passed as whitespace, and a line that holds only \r is a blank    *)
(* line that causes no INDENT and no DEDENT.                               *)
(***************************************************************************)
C40_CarriageReturns ==
    (Done /\ \A i \in DOMAIN Source : Source[i] # "\r")
        => SameKindsAndCounters(normalize("py", WithCarriageReturns(Source)))

====
